---- MODULE Spec2Model ----
(***************************************************************************)
(* Model of the application-usage MCP server: the SQLite-backed store      *)
(* (database/db_manager.py, class DatabaseManager) and the JSON-RPC        *)
(* session and dispatch engine (mcp/mcp_server.py, class MCPServer).       *)
(*                                                                         *)
(* Python values are modelled as follows.  A dict is a function whose      *)
(* DOMAIN is its key set.  The return value of a DatabaseManager method is *)
(* a tagged record, so that None, an int id and a bool stay distinct.      *)
(* A row of table usage_data is a record over Columns; legacy_app is kept  *)
(* as SQLite keeps it (0 or 1).                                            *)
(***************************************************************************)
EXTENDS Integers, Sequences, FiniteSets, TLC

\* ------------------------------------------------------------------ bounds
\* Largest rowid the table hands out in the model (caps the inserts).
MaxRowId == 2
\* Largest duration_seconds a stored row may reach in the model.
MaxDuration == 3

\* ------------------------------------------------------------ value domains
\* The (log_date, user, application_name) triples that are submitted.
Keys ==
  { [log_date |-> "2024-01-15", user |-> "alice", application_name |-> "chrome.exe"],
    [log_date |-> "2024-01-16", user |-> "bob", application_name |-> "code.exe"] }
Durations == {1, 2}

\* ------------------------------------------------------------ Python values
NoneValue == [type |-> "NoneType"]
IntValue(n) == [type |-> "int", value |-> n]
StrValue(t) == [type |-> "str", value |-> t]
BoolValue(b) == [type |-> "bool", value |-> b]
ListValue(xs) == [type |-> "list", value |-> xs]

\* -------------------------------------------------------------- the schema
Columns ==
  {"id", "monitor_app_version", "platform", "user", "application_name",
   "application_version", "log_date", "legacy_app", "duration_seconds"}

required_fields ==
  {"monitor_app_version", "platform", "user", "application_name",
   "application_version", "log_date", "legacy_app", "duration_seconds"}

\* The natural key the merge looks a row up by.
KeyOf(r) == <<r.log_date, r.user, r.application_name>>

VARIABLES
  db,                  \* the SQLite file: [usage_data, sqlite_sequence, autoincrement]
  lastCall,            \* the last direct DatabaseManager call: [op, args, ret, inserted]
  initialized,         \* MCPServer.initialized
  client_capabilities, \* MCPServer.client_capabilities
  pc,                  \* per connection: where its handle_client coroutine stands
  inflight,            \* per connection: bytes the peer has sent that are not read yet
  reply,               \* the last exchange: [conn, request, response]
  handshaken,          \* per connection: it was sent a success reply to initialize
  rejected,            \* per connection: before that, a handshake of its was refused
  submitted,           \* per connection: duration of the create it had processed
  peer,                \* per connection: whether the peer still holds its end
  client,              \* the MCPClient object that connects as "c1"
  run                  \* the creates for one key since its row was inserted

dbVars == <<db, lastCall>>
sessionVars == <<initialized, client_capabilities, pc, inflight, reply, handshaken,
                 rejected, submitted, peer, client>>
serverVars == <<sessionVars, run>>
vars == <<db, lastCall, initialized, client_capabilities, pc, inflight, reply,
          handshaken, rejected, submitted, peer, client, run>>

usage_data == db.usage_data

\* ------------------------------------------------------------ SQLite helpers
RowIds(rows) == {r.id : r \in rows}

MaxOf(S) == CHOOSE m \in S : \A x \in S : x <= m

\* rowid of the next INSERT that names no id: one more than the largest rowid
\* in the table, and with AUTOINCREMENT also more than any rowid ever used.
NextRowId(d) ==
  LET top == IF d.usage_data = {} THEN 0 ELSE MaxOf(RowIds(d.usage_data))
      floor == IF d.autoincrement /\ d.sqlite_sequence > top
               THEN d.sqlite_sequence ELSE top
  IN  floor + 1

\* The constraints of table usage_data: id is the primary key, and no UNIQUE
\* constraint covers (log_date, user, application_name).  A row violates them
\* when its id is the id of another row.
integrity_error(others, row) == row.id \in RowIds(others)

\* cursor.fetchone() on a SELECT without ORDER BY: SQLite walks the table in
\* rowid order, so the first row is the matching row of least rowid.
fetchone(S) == CHOOSE r \in S : \A q \in S : r.id <= q.id

\* Python truthiness of the values submitted for legacy_app (booleans).
Truthy(v) == v = TRUE

\* sqlite3 stores a Python bool as the integer 1 or 0; legacy_app is the one
\* column that is handed a bool.
Adapt(col, v) == IF col = "legacy_app" THEN (IF v = TRUE THEN 1 ELSE 0) ELSE v

\* What a call hands to self.logger: the level, the fixed part of the message
\* and the value the message is formatted with.
Log(level, message, about) == [level |-> level, message |-> message, about |-> about]

\* ---------------------------------------------- DatabaseManager.create_usage_log
missing_fields(log_data) == {f \in required_fields : f \notin DOMAIN log_data}

processed_data(log_data) ==
  [f \in DOMAIN log_data |->
     IF f = "legacy_app" THEN (IF Truthy(log_data[f]) THEN 1 ELSE 0)
     ELSE log_data[f]]

\* A faulty lookup that never finds the existing row.
check_sql_blind(rows, pd) == {}

\* SELECT id, duration_seconds FROM usage_data
\*  WHERE log_date = ? AND user = ? AND application_name = ?
check_sql(rows, pd) ==
  {r \in rows : /\ r.log_date = pd.log_date
                /\ r.user = pd.user
                /\ r.application_name = pd.application_name}

\* Faulty variants of the merge UPDATE: one that leaves application_version as
\* it was, one without its WHERE clause.
update_sql_stale_version(rows, existing_id, new_duration, pd) ==
  {IF r.id = existing_id
   THEN [r EXCEPT !.duration_seconds = new_duration,
                  !.monitor_app_version = pd.monitor_app_version,
                  !.platform = pd.platform,
                  !.legacy_app = pd.legacy_app]
   ELSE r : r \in rows}

update_sql_no_where(rows, existing_id, new_duration, pd) ==
  {[r EXCEPT !.duration_seconds = new_duration,
             !.monitor_app_version = pd.monitor_app_version,
             !.platform = pd.platform,
             !.application_version = pd.application_version,
             !.legacy_app = pd.legacy_app] : r \in rows}

\* UPDATE usage_data SET duration_seconds = ?, monitor_app_version = ?,
\*  platform = ?, application_version = ?, legacy_app = ? WHERE id = ?
update_sql(rows, existing_id, new_duration, pd) ==
  {IF r.id = existing_id
   THEN [r EXCEPT !.duration_seconds = new_duration,
                  !.monitor_app_version = pd.monitor_app_version,
                  !.platform = pd.platform,
                  !.application_version = pd.application_version,
                  !.legacy_app = pd.legacy_app]
   ELSE r : r \in rows}

\* A faulty INSERT whose value list has two version columns swapped.
insert_row_swapped(d, pd) ==
  [c \in Columns |->
     IF c = "application_version" THEN pd["monitor_app_version"]
     ELSE IF c = "monitor_app_version" THEN pd["application_version"]
     ELSE IF c \in DOMAIN pd THEN pd[c] ELSE NextRowId(d)]

\* INSERT INTO usage_data (columns) VALUES (...): the row that is stored, with
\* the rowid SQLite picks when the caller names none.
insert_row(d, pd) ==
  [c \in Columns |->
     IF c \in DOMAIN pd THEN pd[c] ELSE NextRowId(d)]

create_usage_log(d, log_data) ==
  IF missing_fields(log_data) # {}
  THEN [db |-> d, ret |-> NoneValue,
        log |-> Log("error", "Missing required fields: ", missing_fields(log_data))]
  ELSE
    LET pd == processed_data(log_data)
        found == check_sql(d.usage_data, pd)
    IN  IF found # {}
        THEN LET existing_record == fetchone(found)
                 existing_id == existing_record.id
                 new_duration ==
                   existing_record.duration_seconds + pd.duration_seconds
             IN  [db |-> [d EXCEPT !.usage_data =
                            update_sql(d.usage_data, existing_id, new_duration, pd)],
                  ret |-> IntValue(existing_id),
                  log |-> Log("info", "Updated existing usage log ID ", {existing_id})]
        ELSE
          IF ~(DOMAIN pd \subseteq Columns)
          THEN [db |-> d, ret |-> NoneValue,      \* sqlite3.OperationalError
                log |-> Log("error", "Database error creating usage log: ",
                            DOMAIN pd \ Columns)]
          ELSE
            LET row == insert_row(d, pd) IN
            IF integrity_error(d.usage_data, row)
            THEN [db |-> d, ret |-> NoneValue,    \* sqlite3.IntegrityError
                  log |-> Log("error", "Integrity error creating usage log: ",
                              {row.id})]
            ELSE [db |-> [d EXCEPT
                            !.usage_data = d.usage_data \cup {row},
                            !.sqlite_sequence =
                              IF d.autoincrement /\ row.id > @ THEN row.id ELSE @],
                  ret |-> IntValue(row.id),
                  log |-> Log("info", "New usage log created with ID: ", {row.id})]

\* ---------------------------------------------- DatabaseManager.update_usage_log
\* A faulty variant that adds a submitted duration to the stored one, as the
\* merge of create_usage_log does.
update_usage_log_additive(d, log_id, updates) ==
  LET target == {r \in d.usage_data : r.id = log_id}
      set(r) == [c \in Columns |->
                   IF c \notin DOMAIN updates THEN r[c]
                   ELSE IF c = "duration_seconds" THEN r[c] + updates[c]
                   ELSE Adapt(c, updates[c])]
  IN  IF DOMAIN updates = {} \/ ~(DOMAIN updates \subseteq Columns) \/ target = {}
      THEN [db |-> d, ret |-> BoolValue(FALSE),
            log |-> Log("warning", "No usage log found with ID: ", {log_id})]
      ELSE [db |-> [d EXCEPT !.usage_data =
                      (d.usage_data \ target) \cup {set(r) : r \in target}],
            ret |-> BoolValue(TRUE),
            log |-> Log("info", "Usage log updated successfully.", {log_id})]

update_usage_log(d, log_id, updates) ==
  IF DOMAIN updates = {}
  THEN [db |-> d, ret |-> BoolValue(FALSE),
        log |-> Log("warning", "No update data provided.", {})]
  ELSE
    LET target == {r \in d.usage_data : r.id = log_id}
        others == d.usage_data \ target
        set(r) == [c \in Columns |->
                     IF c \in DOMAIN updates THEN Adapt(c, updates[c]) ELSE r[c]]
    IN  IF ~(DOMAIN updates \subseteq Columns)
        THEN [db |-> d, ret |-> BoolValue(FALSE),   \* sqlite3.OperationalError
              log |-> Log("error", "Error updating usage log ", {log_id})]
        ELSE IF target = {}
        THEN [db |-> d, ret |-> BoolValue(FALSE),   \* cursor.rowcount == 0
              log |-> Log("warning", "No usage log found with ID: ", {log_id})]
        ELSE IF \E r \in target : integrity_error(others, set(r))
        THEN [db |-> d, ret |-> BoolValue(FALSE),   \* sqlite3.IntegrityError
              log |-> Log("error", "Error updating usage log ", {log_id})]
        ELSE [db |-> [d EXCEPT !.usage_data = others \cup {set(r) : r \in target}],
              ret |-> BoolValue(TRUE),
              log |-> Log("info", "Usage log updated successfully.", {log_id})]

\* ---------------------------------------------- DatabaseManager.delete_usage_log
\* A faulty variant whose DELETE has no WHERE clause.
delete_usage_log_all(d, log_id) ==
  IF d.usage_data = {}
  THEN [db |-> d, ret |-> BoolValue(FALSE),
        log |-> Log("warning", "No usage log found with ID: ", {log_id})]
  ELSE [db |-> [d EXCEPT !.usage_data = {}],
        ret |-> BoolValue(TRUE),
        log |-> Log("info", "Usage log deleted successfully.", {log_id})]

delete_usage_log(d, log_id) ==
  LET target == {r \in d.usage_data : r.id = log_id} IN
  IF target = {}
  THEN [db |-> d, ret |-> BoolValue(FALSE),         \* cursor.rowcount == 0
        log |-> Log("warning", "No usage log found with ID: ", {log_id})]
  ELSE [db |-> [d EXCEPT !.usage_data = d.usage_data \ target],
        ret |-> BoolValue(TRUE),
        log |-> Log("info", "Usage log deleted successfully.", {log_id})]

\* ------------------------------------------------ DatabaseManager.get_usage_logs
\* The rows of a SELECT, as a list in rowid order.
RECURSIVE fetchall(_)
fetchall(S) ==
  IF S = {} THEN <<>>
  ELSE LET r == fetchone(S) IN <<r>> \o fetchall(S \ {r})

\* A faulty variant that reads the stored 1 back as False and 0 as True.
row_dict_inverted(r) == [r EXCEPT !.legacy_app = (r.legacy_app = 0)]

\* dict(row), with legacy_app turned from 1/0 into True/False.
row_dict(r) == [r EXCEPT !.legacy_app = (r.legacy_app # 0)]

\* A faulty variant that joins its conditions with OR.
get_usage_logs_any(d, filters) ==
  IF ~(DOMAIN filters \subseteq Columns)
  THEN [db |-> d, ret |-> ListValue(<<>>),
        log |-> Log("error", "Error retrieving usage logs: ",
                    DOMAIN filters \ Columns)]
  ELSE
    LET rows == fetchall({r \in d.usage_data :
                   \/ DOMAIN filters = {}
                   \/ \E key \in DOMAIN filters : r[key] = Adapt(key, filters[key])})
    IN  [db |-> d,
         ret |-> ListValue([i \in 1..Len(rows) |-> row_dict(rows[i])]),
         log |-> Log("info", "Retrieved usage logs.", {Len(rows)})]

get_usage_logs(d, filters) ==
  IF ~(DOMAIN filters \subseteq Columns)
  THEN [db |-> d, ret |-> ListValue(<<>>),          \* sqlite3.OperationalError
        log |-> Log("error", "Error retrieving usage logs: ",
                    DOMAIN filters \ Columns)]
  ELSE
    LET rows == fetchall({r \in d.usage_data :
                   \A key \in DOMAIN filters : r[key] = Adapt(key, filters[key])})
    IN  [db |-> d,
         ret |-> ListValue([i \in 1..Len(rows) |-> row_dict(rows[i])]),
         log |-> Log("info", "Retrieved usage logs.", {Len(rows)})]

\* ------------------------------------------------------------------- inputs
\* The mutable columns of a submission, as two profiles that differ in every
\* field.
Profiles ==
  { [monitor_app_version |-> "1.0.0", platform |-> "Windows",
     application_version |-> "1.0.0", legacy_app |-> FALSE],
    [monitor_app_version |-> "1.1.0", platform |-> "macOS",
     application_version |-> "1.0.1", legacy_app |-> TRUE] }

\* Well-formed log_data: exactly the eight required fields.
LogData ==
  { [monitor_app_version |-> p.monitor_app_version, platform |-> p.platform,
     user |-> k.user, application_name |-> k.application_name,
     application_version |-> p.application_version, log_date |-> k.log_date,
     legacy_app |-> p.legacy_app, duration_seconds |-> n] :
       p \in Profiles, k \in Keys, n \in Durations }

\* A dict without some of its keys.
Without(f, keys) == [k \in DOMAIN f \ keys |-> f[k]]

\* log_data that lacks required fields.
BadLogData ==
  { Without(ld, {"duration_seconds"}) :
      ld \in {x \in LogData : x.user = "alice" /\ x.legacy_app = FALSE} }
  \cup { <<>> }

\* log_data in which the caller names the id of the row as well.
WithId(log_data, id) ==
  [k \in DOMAIN log_data \cup {"id"} |-> IF k = "id" THEN id ELSE log_data[k]]

\* One submission per key and profile.
CrudLogData == {ld \in LogData : ld.legacy_app <=> ld.duration_seconds = 2}

IdLogData ==
  { WithId(ld, 2) :
      ld \in {x \in LogData : /\ x.user = "bob"
                               /\ x.legacy_app = FALSE
                               /\ x.duration_seconds = 1} }

LogIds == 1..MaxRowId

\* The updates dicts submitted to update_usage_log (<<>> is the empty dict).
Updates ==
  { <<>>,
    [duration_seconds |-> 3],
    [application_version |-> "1.0.1"],
    [log_date |-> "2024-01-15", user |-> "alice", application_name |-> "chrome.exe"] }

CrudUpdates ==
  { <<>>,
    [duration_seconds |-> 1, legacy_app |-> TRUE],
    [duration_seconds |-> -1],
    [id |-> 2],
    [nickname |-> "al"] }

\* The filters dicts submitted to get_usage_logs (<<>> is the empty dict).
Filters ==
  { <<>>,
    [user |-> "alice"],
    [user |-> "bob", legacy_app |-> TRUE],
    [nickname |-> "al"] }

\* The model follows the table while its rows stay within the bounds.
InBounds(d) ==
  /\ d.sqlite_sequence <= MaxRowId
  /\ \A r \in d.usage_data : r.id <= MaxRowId /\ r.duration_seconds <= MaxDuration

\* ============================================================== MCPServer
\* ------------------------------------------------------- protocol constants
MCP_PROTOCOL_VERSION == "2024-11-05"
SERVER_NAME == "application-usage-mcp"
SERVER_VERSION == "1.0.0"

PARSE_ERROR == -32700
INVALID_REQUEST == -32600
METHOD_NOT_FOUND == -32601
INVALID_PARAMS == -32602
INTERNAL_ERROR == -32603

\* The keys of self.tools.
tools ==
  {"create_usage_log", "get_usage_logs", "update_usage_log", "delete_usage_log",
   "get_unique_users", "get_unique_applications", "get_unique_platforms",
   "analyze_top_users", "analyze_new_users", "analyze_inactive_users",
   "analyze_weekly_additions", "analyze_application_stats",
   "analyze_platform_distribution", "analyze_daily_trends",
   "analyze_user_activity", "analyze_system_overview"}

\* The DatabaseManager method handle_tools_call invokes for a tool.
db_method(tool_name) ==
  CASE tool_name = "analyze_top_users" -> "get_top_users_by_app"
    [] tool_name = "analyze_new_users" -> "get_new_users_in_period"
    [] tool_name = "analyze_inactive_users" -> "get_inactive_users_since"
    [] tool_name = "analyze_weekly_additions" -> "get_user_additions_by_week"
    [] tool_name = "analyze_application_stats" -> "get_application_usage_stats"
    [] tool_name = "analyze_platform_distribution" -> "get_platform_distribution"
    [] tool_name = "analyze_daily_trends" -> "get_daily_usage_trends"
    [] tool_name = "analyze_user_activity" -> "get_user_activity_summary"
    [] tool_name = "analyze_system_overview" -> "get_system_overview"
    [] OTHER -> tool_name

\* The methods class DatabaseManager defines.
DatabaseManagerMethods ==
  {"create_usage_log", "get_usage_logs", "update_usage_log", "delete_usage_log"}

\* ------------------------------------------------------------ Python helpers
\* dict.get(key, default)
Get(dict, key, default) == IF key \in DOMAIN dict THEN dict[key] ELSE default

\* A JSON value that is no object (an array) has no .get.
NonObject == ListValue(<<>>)
IsDict(v) == ~("type" \in DOMAIN v /\ "value" \in DOMAIN v)

\* The outcome of a handler: the server state it leaves, and either the
\* response it returns or the exception it raises.
Return(S, response) == [state |-> S, raised |-> FALSE, response |-> response]
Raise(S, exc) == [state |-> S, raised |-> TRUE, response |-> exc]

NoAttributeGet == <<"'list' object has no attribute 'get'">>

\* ---------------------------------------------------- create_error_response
\* A faulty variant whose reply carries a null result next to the error.
create_error_response_with_result(message_id, code, message) ==
  [jsonrpc |-> "2.0", id |-> message_id, result |-> NoneValue,
   error |-> [code |-> code, message |-> message]]

create_error_response(message_id, code, message) ==
  [jsonrpc |-> "2.0", id |-> message_id,
   error |-> [code |-> code, message |-> message]]

result_response(message_id, result) ==
  [jsonrpc |-> "2.0", id |-> message_id, result |-> result]

\* --------------------------------------------------------- handle_initialize
\* A faulty variant that refuses a handshake once the flag is set.
handle_initialize_once(S, message_id, params) ==
  IF ~IsDict(params) THEN Raise(S, NoAttributeGet)
  ELSE
    LET S1 == [S EXCEPT !.client_capabilities = Get(params, "capabilities", <<>>)]
    IN  IF S.initialized
        THEN Return(S1, create_error_response(message_id, INVALID_REQUEST,
                          <<"Already initialized">>))
        ELSE IF Get(params, "protocolVersion", "None") # MCP_PROTOCOL_VERSION
        THEN Return(S1, create_error_response(message_id, INVALID_PARAMS,
               <<"Unsupported protocol version: ",
                 Get(params, "protocolVersion", "None")>>))
        ELSE Return([S1 EXCEPT !.initialized = TRUE],
               result_response(message_id,
                 [protocolVersion |-> MCP_PROTOCOL_VERSION,
                  capabilities |-> [tools |-> <<>>, resources |-> <<>>],
                  serverInfo |-> [name |-> SERVER_NAME, version |-> SERVER_VERSION]]))

\* A faulty variant that accepts any protocol version.
handle_initialize_any_version(S, message_id, params) ==
  IF ~IsDict(params) THEN Raise(S, NoAttributeGet)
  ELSE
    Return([S EXCEPT !.client_capabilities = Get(params, "capabilities", <<>>),
                     !.initialized = TRUE],
           result_response(message_id,
             [protocolVersion |-> MCP_PROTOCOL_VERSION,
              capabilities |-> [tools |-> <<>>, resources |-> <<>>],
              serverInfo |-> [name |-> SERVER_NAME, version |-> SERVER_VERSION]]))

\* An absent protocolVersion is None, which differs from the supported version
\* and prints as "None".
\* A faulty variant that clears the flag when it refuses a handshake.
handle_initialize_resetting(S, message_id, params) ==
  IF ~IsDict(params) THEN Raise(S, NoAttributeGet)
  ELSE
    LET S1 == [S EXCEPT !.client_capabilities = Get(params, "capabilities", <<>>)]
        protocol_version == Get(params, "protocolVersion", "None")
    IN  IF protocol_version # MCP_PROTOCOL_VERSION
        THEN Return([S1 EXCEPT !.initialized = FALSE],
               create_error_response(message_id, INVALID_PARAMS,
                 <<"Unsupported protocol version: ", protocol_version>>))
        ELSE Return([S1 EXCEPT !.initialized = TRUE],
               result_response(message_id,
                 [protocolVersion |-> MCP_PROTOCOL_VERSION,
                  capabilities |-> [tools |-> <<>>, resources |-> <<>>],
                  serverInfo |-> [name |-> SERVER_NAME, version |-> SERVER_VERSION]]))

handle_initialize(S, message_id, params) ==
  IF ~IsDict(params) THEN Raise(S, NoAttributeGet)
  ELSE
    LET S1 == [S EXCEPT !.client_capabilities = Get(params, "capabilities", <<>>)]
        protocol_version == Get(params, "protocolVersion", "None")
    IN  IF protocol_version # MCP_PROTOCOL_VERSION
        THEN Return(S1, create_error_response(message_id, INVALID_PARAMS,
                          <<"Unsupported protocol version: ", protocol_version>>))
        ELSE Return([S1 EXCEPT !.initialized = TRUE],
               result_response(message_id,
                 [protocolVersion |-> MCP_PROTOCOL_VERSION,
                  capabilities |-> [tools |-> <<>>, resources |-> <<>>],
                  serverInfo |-> [name |-> SERVER_NAME, version |-> SERVER_VERSION]]))

\* --------------------------------------------------------- handle_tools_call
\* The result of the DatabaseManager call behind a tool: [db, ret], or the
\* exception the call raises inside the try block.
tool_result(d, tool_name, arguments) ==
  IF tool_name = "create_usage_log"
  THEN [raised |-> FALSE, out |-> create_usage_log(d, arguments)]
  ELSE IF tool_name = "get_usage_logs"
  THEN IF ~IsDict(arguments)
       THEN [raised |-> TRUE, exc |-> NoAttributeGet[1]]
       ELSE [raised |-> FALSE,
             out |-> get_usage_logs(d, Get(arguments, "filters", <<>>))]
  ELSE IF tool_name = "update_usage_log"
  THEN IF "log_id" \notin DOMAIN arguments
       THEN [raised |-> TRUE, exc |-> "'log_id'"]
       ELSE IF "updates" \notin DOMAIN arguments
       THEN [raised |-> TRUE, exc |-> "'updates'"]
       ELSE [raised |-> FALSE,
             out |-> update_usage_log(d, arguments.log_id, arguments.updates)]
  ELSE IF tool_name = "delete_usage_log"
  THEN IF "log_id" \notin DOMAIN arguments
       THEN [raised |-> TRUE, exc |-> "'log_id'"]
       ELSE [raised |-> FALSE, out |-> delete_usage_log(d, arguments.log_id)]
  ELSE IF db_method(tool_name) \notin DatabaseManagerMethods
  THEN [raised |-> TRUE, exc |-> "'DatabaseManager' object has no attribute"]
  ELSE [raised |-> TRUE, exc |-> "unreachable"]

\* A faulty variant that answers an unregistered tool with an empty result.
handle_tools_call_silent(S, message_id, params) ==
  IF ~IsDict(params) THEN Raise(S, NoAttributeGet)
  ELSE
    LET tool_name == Get(params, "name", "None")
        arguments == Get(params, "arguments", <<>>)
    IN  IF tool_name \notin tools
        THEN Return(S, result_response(message_id, [content |-> <<>>]))
        ELSE
          LET res == tool_result(S.db, tool_name, arguments) IN
          IF res.raised
          THEN Return(S, create_error_response(message_id, INTERNAL_ERROR,
                           <<"Tool execution failed: ", res.exc>>))
          ELSE Return([S EXCEPT !.db = res.out.db],
                 result_response(message_id,
                   [content |-> <<[type |-> "text",
                                   text |-> [result |-> res.out.ret,
                                             tool |-> tool_name]]>>]))

handle_tools_call(S, message_id, params) ==
  IF ~IsDict(params) THEN Raise(S, NoAttributeGet)
  ELSE
    LET tool_name == Get(params, "name", "None")
        arguments == Get(params, "arguments", <<>>)
    IN  IF tool_name \notin tools
        THEN Return(S, create_error_response(message_id, INVALID_PARAMS,
                         <<"Unknown tool: ", tool_name>>))
        ELSE
          LET res == tool_result(S.db, tool_name, arguments) IN
          IF res.raised
          THEN Return(S, create_error_response(message_id, INTERNAL_ERROR,
                           <<"Tool execution failed: ", res.exc>>))
          ELSE Return([S EXCEPT !.db = res.out.db],
                 result_response(message_id,
                   [content |-> <<[type |-> "text",
                                   text |-> [result |-> res.out.ret,
                                             tool |-> tool_name]]>>]))

\* ------------------------------------------ handle_tools_list, resources_list
\* A faulty variant that lists the tools that take a log_id only while the table
\* holds a row.
handle_tools_list_available(S, message_id) ==
  Return(S, result_response(message_id,
              [tools |-> IF S.db.usage_data = {}
                         THEN tools \ {"update_usage_log", "delete_usage_log"}
                         ELSE tools]))

handle_tools_list(S, message_id) ==
  Return(S, result_response(message_id, [tools |-> tools]))

handle_resources_list(S, message_id) ==
  Return(S, result_response(message_id,
              [resources |-> {[uri |-> "usage://stats", name |-> "Usage Statistics",
                               mimeType |-> "application/json"]}]))

\* ----------------------------------------------------- handle_resources_read
\* last_updated, the time of the call, is left out of the statistics.
\* A faulty variant that reports the largest id as the number of logs.
handle_resources_read_last_id(S, message_id, params) ==
  IF ~IsDict(params) THEN Raise(S, NoAttributeGet)
  ELSE
    LET uri == Get(params, "uri", "None") IN
    IF uri = "usage://stats"
    THEN Return(S, result_response(message_id,
                  [contents |-> <<[uri |-> uri, mimeType |-> "application/json",
                                   text |-> [total_logs |-> NextRowId(S.db) - 1,
                                             summary |-> "Application usage statistics"]]>>]))
    ELSE Return(S, create_error_response(message_id, INVALID_PARAMS,
                     <<"Unknown resource: ", uri>>))

handle_resources_read(S, message_id, params) ==
  IF ~IsDict(params) THEN Raise(S, NoAttributeGet)
  ELSE
    LET uri == Get(params, "uri", "None") IN
    IF uri = "usage://stats"
    THEN LET all_logs == get_usage_logs(S.db, <<>>).ret.value IN
         Return(S, result_response(message_id,
                  [contents |-> <<[uri |-> uri, mimeType |-> "application/json",
                                   text |-> [total_logs |-> Len(all_logs),
                                             summary |-> "Application usage statistics"]]>>]))
    ELSE Return(S, create_error_response(message_id, INVALID_PARAMS,
                     <<"Unknown resource: ", uri>>))

\* A faulty variant that ends the session it answers.
handle_ping_resetting(S, message_id) ==
  Return([S EXCEPT !.initialized = FALSE], result_response(message_id, <<>>))

handle_ping(S, message_id) == Return(S, result_response(message_id, <<>>))

\* ----------------------------------------------------------- process_message
\* An absent method is None; None and "" both fail the test "if not method".
\* A faulty variant that tests the initialized flag before it looks at the
\* method.
process_message_state_first(S, message) ==
  LET message_id == Get(message, "id", NoneValue)
      method == Get(message, "method", "")
      params == Get(message, "params", <<>>)
  IN  IF ~S.initialized /\ method # "initialize"
      THEN Return(S, create_error_response(message_id, INVALID_REQUEST,
                       <<"Server not initialized">>))
      ELSE IF method = ""
      THEN Return(S, create_error_response(message_id, INVALID_REQUEST,
                       <<"Missing method">>))
      ELSE IF method = "initialize"
      THEN handle_initialize(S, message_id, params)
      ELSE IF method = "tools/list" THEN handle_tools_list(S, message_id)
      ELSE IF method = "tools/call" THEN handle_tools_call(S, message_id, params)
      ELSE IF method = "resources/list" THEN handle_resources_list(S, message_id)
      ELSE IF method = "resources/read"
      THEN handle_resources_read(S, message_id, params)
      ELSE IF method = "ping" THEN handle_ping(S, message_id)
      ELSE Return(S, create_error_response(message_id, METHOD_NOT_FOUND,
                       <<"Unknown method: ", method>>))

process_message(S, message) ==
  LET message_id == Get(message, "id", NoneValue)
      method == Get(message, "method", "")
      params == Get(message, "params", <<>>)
  IN  IF method = ""
      THEN Return(S, create_error_response(message_id, INVALID_REQUEST,
                       <<"Missing method">>))
      ELSE IF method = "initialize"
      THEN handle_initialize(S, message_id, params)
      ELSE IF ~S.initialized
      THEN Return(S, create_error_response(message_id, INVALID_REQUEST,
                       <<"Server not initialized">>))
      ELSE IF method = "tools/list" THEN handle_tools_list(S, message_id)
      ELSE IF method = "tools/call" THEN handle_tools_call(S, message_id, params)
      ELSE IF method = "resources/list" THEN handle_resources_list(S, message_id)
      ELSE IF method = "resources/read"
      THEN handle_resources_read(S, message_id, params)
      ELSE IF method = "ping" THEN handle_ping(S, message_id)
      ELSE Return(S, create_error_response(message_id, METHOD_NOT_FOUND,
                       <<"Unknown method: ", method>>))

\* ------------------------------------------- handle_client: one pass of the loop
\* What the bytes read from the socket are: text that is no JSON, bytes that
\* are no UTF-8, or the JSON value they decode to.
InvalidJson == [json |-> "invalid"]
NotUtf8 == [json |-> "notutf8"]
Json(value) == [json |-> "value", value |-> value]

\* From the return of reader.read to writer.write: the state the server is left
\* in and the response that is written.
serve(S, data) ==
  IF data.json = "invalid"
  THEN Return(S, create_error_response(NoneValue, PARSE_ERROR, <<"Invalid JSON">>))
  ELSE IF data.json = "notutf8"
  THEN Return(S, create_error_response(NoneValue, INTERNAL_ERROR,
                   <<"'utf-8' codec can't decode">>))
  ELSE IF ~IsDict(data.value)
  THEN Return(S, create_error_response(NoneValue, INTERNAL_ERROR, NoAttributeGet))
  ELSE
    LET out == process_message(S, data.value) IN
    IF out.raised
    THEN Return(out.state,
                create_error_response(NoneValue, INTERNAL_ERROR, out.response))
    ELSE out

\* ------------------------------------------------------------- connections
Conns == {"c1", "c2"}

NoData == [json |-> "none"]
NoReply == [conn |-> "none", request |-> NoData, response |-> NoneValue]
NothingSubmitted == [duration |-> 0, raced |-> FALSE]

\* The server state a handler works on.
ServerState ==
  [initialized |-> initialized, client_capabilities |-> client_capabilities,
   db |-> db]

IsHandshake(data) ==
  /\ data.json = "value"
  /\ IsDict(data.value)
  /\ Get(data.value, "method", "") = "initialize"

IsResult(response) == "result" \in DOMAIN response
IsError(response) == "error" \in DOMAIN response

\* ------------------------------------------------- calls on a DatabaseManager
\* lastCall.inserted records whether the call added a row to the table.
NoCall == [op |-> "none", args |-> <<>>, ret |-> NoneValue, inserted |-> FALSE]

\* MCPClient.__init__: no connection, not initialized, nothing loaded.  op,
\* args, ret and sent record the last method called on the object, its
\* arguments, what it returned and the bytes it wrote to the server; tick
\* alternates with every call; at names the await an initialize call is
\* suspended at.
NewClient ==
  [writer |-> "None", initialized |-> FALSE, server_capabilities |-> <<>>,
   available_tools |-> {}, available_resources |-> {},
   at |-> "idle", op |-> "none", args |-> <<>>, ret |-> NoneValue, sent |-> NoData,
   tick |-> FALSE]

\* No create is followed: run.open says whether one is, run.key and run.id are
\* the key and the id of the row it inserted, run.total is the sum of the
\* durations submitted for the key since, run.last the last submission;
\* run.deleted says that the run ended with the delete of its row.
NoRun ==
  [open |-> FALSE, deleted |-> FALSE, key |-> <<>>, id |-> 0, total |-> 0,
   last |-> <<>>]

\* MCPServer.__init__ on an initialised, empty database; no connection yet.
Init ==
  /\ \E ai \in BOOLEAN :
       db = [usage_data |-> {}, sqlite_sequence |-> 0, autoincrement |-> ai]
  /\ lastCall = NoCall
  /\ initialized = FALSE
  /\ client_capabilities = <<>>
  /\ pc = [c \in Conns |-> "none"]
  /\ inflight = [c \in Conns |-> NoData]
  /\ reply = NoReply
  /\ handshaken = [c \in Conns |-> FALSE]
  /\ rejected = [c \in Conns |-> FALSE]
  /\ submitted = [c \in Conns |-> NothingSubmitted]
  /\ peer = [c \in Conns |-> "open"]
  /\ client = NewClient
  /\ run = NoRun

\* The call itself: what it does to the file and what it returns.
Create(log_data) ==
  LET out == create_usage_log(db, log_data) IN
  /\ InBounds(out.db)
  /\ db' = out.db
  /\ lastCall' = [op |-> "create_usage_log", args |-> <<log_data>>, ret |-> out.ret,
                  inserted |-> out.db.usage_data \ db.usage_data # {}
                               /\ db.usage_data \subseteq out.db.usage_data]

CreateUsageLog(log_data) ==
  /\ Create(log_data)
  /\ UNCHANGED serverVars

Update(log_id, updates) ==
  LET out == update_usage_log(db, log_id, updates) IN
  /\ InBounds(out.db)
  /\ db' = out.db
  /\ lastCall' = [op |-> "update_usage_log", args |-> <<log_id, updates>>,
                  ret |-> out.ret, inserted |-> FALSE]

UpdateUsageLog(log_id, updates) ==
  /\ Update(log_id, updates)
  /\ UNCHANGED serverVars

Delete(log_id) ==
  LET out == delete_usage_log(db, log_id) IN
  /\ db' = out.db
  /\ lastCall' = [op |-> "delete_usage_log", args |-> <<log_id>>, ret |-> out.ret,
                  inserted |-> FALSE]

DeleteUsageLog(log_id) ==
  /\ Delete(log_id)
  /\ UNCHANGED serverVars

GetUsageLogs(filters) ==
  LET out == get_usage_logs(db, filters) IN
  /\ db' = out.db
  /\ lastCall' = [op |-> "get_usage_logs", args |-> <<filters>>, ret |-> out.ret,
                  inserted |-> FALSE]
  /\ UNCHANGED serverVars

Next ==
  \/ \E log_data \in LogData \cup BadLogData : CreateUsageLog(log_data)
  \/ \E log_id \in LogIds, updates \in Updates : UpdateUsageLog(log_id, updates)
  \/ \E log_id \in LogIds : DeleteUsageLog(log_id)

\* The store under direct calls, as tests/test_db_manager.py drives it.
Spec == Init /\ [][Next]_vars

\* The four operations under calls that are refused as well as calls that are
\* served: log_data without required fields or with an id, updates that are
\* empty or name the id, filters that name no column.
CrudNext ==
  \/ \E log_data \in CrudLogData \cup BadLogData \cup IdLogData :
       CreateUsageLog(log_data)
  \/ \E log_id \in LogIds, updates \in CrudUpdates : UpdateUsageLog(log_id, updates)
  \/ \E log_id \in LogIds : DeleteUsageLog(log_id)
  \/ \E filters \in Filters : GetUsageLogs(filters)

CrudSpec == Init /\ [][CrudNext]_vars

\* ------------------------------------------------- the connection handlers
\* asyncio.start_server accepts a connection and starts handle_client, which
\* waits in reader.read.
Accept(c) ==
  /\ pc[c] = "none"
  /\ pc' = [pc EXCEPT ![c] = "read"]
  /\ UNCHANGED <<dbVars, initialized, client_capabilities, inflight, reply,
                 handshaken, rejected, submitted, peer, client, run>>

\* A faulty handler that leaves its loop after it has written an error reply.
Handle_fatal(c, data) ==
  LET out == serve(ServerState, data) IN
  /\ pc[c] = "read"
  /\ InBounds(out.state.db)
  /\ initialized' = out.state.initialized
  /\ client_capabilities' = out.state.client_capabilities
  /\ db' = out.state.db
  /\ reply' = [conn |-> c, request |-> data, response |-> out.response]
  /\ pc' = [pc EXCEPT ![c] = IF IsError(out.response) THEN "closed" ELSE "drain"]
  /\ handshaken' = [handshaken EXCEPT
                      ![c] = @ \/ (IsHandshake(data) /\ IsResult(out.response))]
  /\ rejected' = [rejected EXCEPT
                    ![c] = @ \/ (/\ IsHandshake(data) /\ IsError(out.response)
                                 /\ ~handshaken[c])]
  /\ UNCHANGED <<lastCall, peer, run>>

\* A faulty handler that reads the next request while the reply to the last
\* one is still being drained.
Handle_eager(c, data) ==
  LET out == serve(ServerState, data) IN
  /\ pc[c] \in {"read", "drain"}
  /\ InBounds(out.state.db)
  /\ initialized' = out.state.initialized
  /\ client_capabilities' = out.state.client_capabilities
  /\ db' = out.state.db
  /\ reply' = [conn |-> c, request |-> data, response |-> out.response]
  /\ pc' = [pc EXCEPT ![c] = "drain"]
  /\ handshaken' = [handshaken EXCEPT
                      ![c] = @ \/ (IsHandshake(data) /\ IsResult(out.response))]
  /\ rejected' = [rejected EXCEPT
                    ![c] = @ \/ (/\ IsHandshake(data) /\ IsError(out.response)
                                 /\ ~handshaken[c])]
  /\ UNCHANGED <<lastCall, peer, run>>

\* reader.read returns data: the handler decodes it, runs process_message to
\* its end (nothing on that path suspends the coroutine), writes the response
\* and waits in writer.drain.
Handle(c, data) ==
  LET out == serve(ServerState, data) IN
  /\ pc[c] = "read"
  /\ InBounds(out.state.db)
  /\ initialized' = out.state.initialized
  /\ client_capabilities' = out.state.client_capabilities
  /\ db' = out.state.db
  /\ reply' = [conn |-> c, request |-> data, response |-> out.response]
  /\ pc' = [pc EXCEPT ![c] = "drain"]
  /\ handshaken' = [handshaken EXCEPT
                      ![c] = @ \/ (IsHandshake(data) /\ IsResult(out.response))]
  /\ rejected' = [rejected EXCEPT
                    ![c] = @ \/ (/\ IsHandshake(data) /\ IsError(out.response)
                                 /\ ~handshaken[c])]
  /\ UNCHANGED <<lastCall, peer, run>>

\* writer.drain returns and the loop is back in reader.read.
Drain(c) ==
  /\ pc[c] = "drain"
  /\ pc' = [pc EXCEPT ![c] = "read"]
  /\ UNCHANGED <<dbVars, initialized, client_capabilities, inflight, reply,
                 handshaken, rejected, submitted, peer, client, run>>

\* reader.read returns b'': the loop breaks and the finally block closes.
PeerClose(c) ==
  /\ pc[c] = "read"
  /\ inflight[c] = NoData
  /\ pc' = [pc EXCEPT ![c] = "closed"]
  /\ peer' = [peer EXCEPT ![c] = "gone"]
  /\ UNCHANGED <<dbVars, initialized, client_capabilities, inflight, reply,
                 handshaken, rejected, submitted, client, run>>

\* writer.drain raises (the peer is gone): the outer except logs it and the
\* finally block closes.
ConnectionLost(c) ==
  /\ pc[c] = "drain"
  /\ pc' = [pc EXCEPT ![c] = "closed"]
  /\ inflight' = [inflight EXCEPT ![c] = NoData]
  /\ peer' = [peer EXCEPT ![c] = "gone"]
  /\ UNCHANGED <<dbVars, initialized, client_capabilities, reply, handshaken,
                 rejected, submitted, client, run>>

\* ----------------------------------------------------------- the requests
CapsA == [tools |-> <<>>, resources |-> <<>>]
CapsB == [sampling |-> <<>>]

Request(id, method, params) ==
  Json([jsonrpc |-> "2.0", id |-> StrValue(id), method |-> method,
        params |-> params])

InitializeRequest(version, capabilities) ==
  Request("init-1", "initialize",
          [protocolVersion |-> version, capabilities |-> capabilities])

ToolCall(name, arguments) ==
  Request("call-1", "tools/call", [name |-> name, arguments |-> arguments])

\* The submissions sent over a connection: one key, two profiles and durations.
ToolLogData ==
  {ld \in LogData : /\ ld.user = "alice"
                    /\ (ld.legacy_app <=> ld.duration_seconds = 2)}

Requests ==
  { InvalidJson,
    NotUtf8,
    Json(NonObject),
    Json([jsonrpc |-> "2.0", id |-> StrValue("bad-1")]),
    InitializeRequest(MCP_PROTOCOL_VERSION, CapsA),
    InitializeRequest("2023-01-01", CapsB),
    Request("list-1", "tools/list", <<>>),
    Request("read-1", "resources/read", [uri |-> "usage://stats"]),
    Request("ping-1", "ping", <<>>),
    Request("x-1", "shutdown", <<>>),
    ToolCall("get_usage_logs", <<>>),
    ToolCall("delete_usage_log", [log_id |-> 1]),
    ToolCall("export_usage", <<>>),
    ToolCall("create_usage_log", <<>>),
    Request("call-1", "tools/call", NonObject) }
  \cup { ToolCall("create_usage_log", ld) : ld \in ToolLogData }

\* A request arrives on a connection whose handler waits in reader.read.
Receive(c, data) ==
  /\ inflight[c] = NoData
  /\ Handle(c, data)
  /\ UNCHANGED <<inflight, submitted, client, run>>

ServerNext ==
  \E c \in Conns :
    \/ Accept(c)
    \/ \E data \in Requests : Receive(c, data)
    \/ Drain(c)
    \/ PeerClose(c)
    \/ ConnectionLost(c)

\* The server under requests from up to two connections.
ServerSpec == Init /\ [][ServerNext]_vars

\* ------------------------------------------- two connections, one key each
\* The create requests for one key: both profiles, both durations.
RaceCreates ==
  { ToolCall("create_usage_log", ld) : ld \in {x \in LogData : x.user = "alice"} }

\* The first request of a connection is its handshake.
Handshake(c) ==
  /\ ~handshaken[c]
  /\ Receive(c, InitializeRequest(MCP_PROTOCOL_VERSION, CapsA))

\* The peer of a connection that has completed its handshake writes its one
\* create request; the bytes wait in the socket until the handler reads.
Send(c, data) ==
  /\ pc[c] \in {"read", "drain"}
  /\ handshaken[c]
  /\ inflight[c] = NoData
  /\ submitted[c] = NothingSubmitted
  /\ inflight' = [inflight EXCEPT ![c] = data]
  /\ submitted' = [submitted EXCEPT ![c] =
                     [duration |-> data.value.params.arguments.duration_seconds,
                      raced |-> \E o \in Conns \ {c} : inflight[o] # NoData]]
  /\ UNCHANGED <<dbVars, initialized, client_capabilities, pc, reply, handshaken,
                 rejected, peer, client, run>>

\* reader.read returns the bytes that wait on the connection.
ReadInflight(c) ==
  /\ inflight[c] # NoData
  /\ Handle(c, inflight[c])
  /\ inflight' = [inflight EXCEPT ![c] = NoData]
  /\ UNCHANGED <<submitted, client, run>>

RaceNext ==
  \E c \in Conns :
    \/ Accept(c)
    \/ Handshake(c)
    \/ \E data \in RaceCreates : Send(c, data)
    \/ ReadInflight(c)
    \/ Drain(c)

\* Two clients that each handshake and then create a record for the same key.
RaceSpec == Init /\ [][RaceNext]_vars

\* ------------------------------------------------- one client, every method
\* The requests of one client: every method of process_message, handshakes that
\* are accepted and refused, tools that are registered, unregistered and
\* registered without a DatabaseManager method, both kinds of resource URI, and
\* creates for both keys.
DispatchRequests ==
  { InvalidJson,
    Json([jsonrpc |-> "2.0", id |-> StrValue("bad-1")]),
    InitializeRequest(MCP_PROTOCOL_VERSION, CapsA),
    InitializeRequest("2023-01-01", CapsB),
    Request("list-1", "tools/list", <<>>),
    Request("list-2", "resources/list", <<>>),
    Request("read-1", "resources/read", [uri |-> "usage://stats"]),
    Request("read-2", "resources/read", [uri |-> "usage://logs"]),
    Request("ping-1", "ping", <<>>),
    Request("x-1", "shutdown", <<>>),
    Request("call-1", "tools/call", NonObject),
    ToolCall("delete_usage_log", [log_id |-> 1]),
    ToolCall("export_usage", <<>>),
    ToolCall("analyze_system_overview", <<>>),
    ToolCall("get_usage_logs", <<>>),
    ToolCall("get_usage_logs", [filters |-> [user |-> "alice"]]),
    ToolCall("get_usage_logs", [filters |-> [nickname |-> "al"]]),
    ToolCall("get_usage_logs", NonObject),
    Request("read-3", "resources/read", NonObject) }
  \cup { ToolCall("create_usage_log", ld) : ld \in CrudLogData }

DispatchNext ==
  \/ Accept("c1")
  \/ \E data \in DispatchRequests : Receive("c1", data)
  \/ Drain("c1")
  \/ PeerClose("c1")
  \/ ConnectionLost("c1")

\* The server under the requests of one client.
DispatchSpec == Init /\ [][DispatchNext]_vars

\* ------------------------------------------------------ claims on the server
\* A request that names a method other than the handshake.
NonHandshakeRequest(data) ==
  /\ data.json = "value"
  /\ IsDict(data.value)
  /\ Get(data.value, "method", "") \notin {"", "initialize"}

NotInitializedError(response) ==
  /\ IsError(response)
  /\ response.error.code = INVALID_REQUEST
  /\ response.error.message = <<"Server not initialized">>

\* C4: when two connections each have a create for the same key in flight,
\* in whatever order the two handlers run, the table never holds two rows for
\* the key, and once both creates are processed the one row's duration_seconds
\* is the sum of the two submitted durations.
RaceRows == {r \in usage_data : r.user = "alice"}

Processed(c) == submitted[c].duration > 0 /\ inflight[c] = NoData

C4_ConcurrentCreatesMerge ==
  /\ Cardinality(RaceRows) <= 1
  /\ (\A c \in Conns : Processed(c))
       => /\ Cardinality(RaceRows) = 1
          /\ \A r \in RaceRows :
               r.duration_seconds =
                 submitted["c1"].duration + submitted["c2"].duration

\* Both creates were in flight at once and both have been processed.
C4_Witness ==
  /\ \A c \in Conns : Processed(c)
  /\ \E c \in Conns : submitted[c].raced
  /\ \E r \in RaceRows : r.duration_seconds = 3

\* C5: session state is per connection: a connection that has not itself
\* completed a handshake is in New, whatever happened on other connections, so
\* the server is Initialized for an open connection only after that
\* connection's own handshake.
C5_SessionPerConnection ==
  \A c \in Conns :
    (pc[c] \in {"read", "drain"} /\ initialized) => handshaken[c]

\* A step in which the handler of connection reply'.conn has read the request
\* reply'.request and has written reply'.response.
Served ==
  /\ reply'.conn \in Conns
  /\ pc[reply'.conn] = "read"
  /\ pc'[reply'.conn] = "drain"

\* C6: on a connection that has not completed a handshake, a request with a
\* method other than the handshake gets the 'Server not initialized' error and
\* changes neither the store nor the session state.
C6_Step ==
  ( /\ Served
    /\ ~handshaken[reply'.conn]
    /\ NonHandshakeRequest(reply'.request) )
  => /\ NotInitializedError(reply'.response)
     /\ reply'.response.id = reply'.request.value.id
     /\ db' = db
     /\ initialized' = initialized
     /\ client_capabilities' = client_capabilities

C6_NoUseBeforeHandshake == [][C6_Step]_vars

\* C7: a handshake with an unsupported protocolVersion gets an error reply
\* with code INVALID_PARAMS naming the version and leaves the session as it was
\* (New stays New) with the connection open; a handshake with the supported
\* version then gets a result and the session is Initialized.
SupportedVersion(data) ==
  Get(Get(data.value, "params", <<>>), "protocolVersion", "None")
    = MCP_PROTOCOL_VERSION

C7_Step ==
  ( /\ Served
    /\ IsHandshake(reply'.request) )
  => IF SupportedVersion(reply'.request)
     THEN /\ IsResult(reply'.response)
          /\ reply'.response.id = reply'.request.value.id
          /\ initialized'
          /\ handshaken'[reply'.conn]
     ELSE /\ IsError(reply'.response)
          /\ reply'.response.id = reply'.request.value.id
          /\ reply'.response.error.code = INVALID_PARAMS
          /\ reply'.response.error.message =
               <<"Unsupported protocol version: ",
                 reply'.request.value.params.protocolVersion>>
          /\ initialized' = initialized
          /\ handshaken' = handshaken
          /\ pc'[reply'.conn] # "closed"

C7_VersionMismatchThenRetry == [][C7_Step]_vars

\* On the only connection there is, a handshake was refused while the session
\* was New and a later handshake has just succeeded.
C7_Witness ==
  \E c \in Conns :
    /\ \A o \in Conns \ {c} : pc[o] = "none"
    /\ rejected[c]
    /\ handshaken[c]
    /\ initialized
    /\ reply.conn = c
    /\ IsHandshake(reply.request)
    /\ IsResult(reply.response)

\* C8: a handshake that is refused leaves the stored client capabilities and
\* the initialized flag as they were.
C8_Step ==
  ( /\ Served
    /\ IsHandshake(reply'.request)
    /\ IsError(reply'.response) )
  => /\ client_capabilities' = client_capabilities
     /\ initialized' = initialized

C8_RefusedHandshakeKeepsCapabilities == [][C8_Step]_vars

\* C9: a handshake with the supported version on a session that is already
\* Initialized gets the same result as the first handshake (the id apart), the
\* session stays Initialized and the store is unchanged.
HandshakeResult ==
  [protocolVersion |-> "2024-11-05",
   capabilities |-> [tools |-> <<>>, resources |-> <<>>],
   serverInfo |-> [name |-> "application-usage-mcp", version |-> "1.0.0"]]

C9_Step ==
  ( /\ Served
    /\ IsHandshake(reply'.request)
    /\ SupportedVersion(reply'.request) )
  => /\ IsResult(reply'.response)
     /\ reply'.response.result = HandshakeResult
     /\ initialized'
     /\ (handshaken[reply'.conn] => handshaken'[reply'.conn])
     /\ db' = db

C9_RepeatedHandshakeReconfirms == [][C9_Step]_vars

\* A connection that had completed its handshake and had created a record has
\* been sent a second handshake result; the record is still there.
C9_Witness ==
  \E c \in Conns :
    /\ handshaken[c]
    /\ ~rejected[c]
    /\ \A o \in Conns \ {c} : pc[o] = "none"
    /\ usage_data # {}
    /\ reply.conn = c
    /\ IsHandshake(reply.request)
    /\ IsResult(reply.response)

\* ------------------------------------------------------- claims on the store
\* How a caller reads the table back: get_usage_logs with a filter.
List(d, filters) == get_usage_logs(d, filters).ret.value

KeyFilter(log_data) ==
  [log_date |-> log_data.log_date, user |-> log_data.user,
   application_name |-> log_data.application_name]

RowsOfKey(rows, log_data) ==
  {r \in rows : KeyOf(r) = KeyOf(log_data)}

\* C1: in every reachable state at most one stored row exists for any
\* (log_date, user, application_name) triple.
C1_OneRowPerKey ==
  \A r1 \in usage_data, r2 \in usage_data : KeyOf(r1) = KeyOf(r2) => r1 = r2

\* A step that is the call create_usage_log(Submitted) with well-formed
\* log_data.
WellFormed(log_data) == DOMAIN log_data = required_fields

Submitted == lastCall'.args[1]

Created ==
  /\ lastCall'.op = "create_usage_log"
  /\ WellFormed(Submitted)

\* C2: create(R1) on a store without a row for the key, followed by create(R2)
\* with the same key, leaves exactly one row for the key; its duration_seconds is
\* R1.duration_seconds + R2.duration_seconds and its monitor_app_version,
\* platform, application_version and legacy_app are those of R2.
C2_MergeStep ==
  ( /\ Created
    /\ lastCall.op = "create_usage_log"
    /\ lastCall.inserted
    /\ KeyOf(lastCall.args[1]) = KeyOf(Submitted) )
  => LET R1 == lastCall.args[1]
         R2 == Submitted
         listed == List(db', KeyFilter(R2))
     IN  /\ Len(listed) = 1
         /\ listed[1].duration_seconds = R1.duration_seconds + R2.duration_seconds
         /\ listed[1].monitor_app_version = R2.monitor_app_version
         /\ listed[1].platform = R2.platform
         /\ listed[1].application_version = R2.application_version
         /\ listed[1].legacy_app = R2.legacy_app

C2_CreateTwiceMerges == [][C2_MergeStep]_vars

\* A second create for the key of the row the first create inserted has merged
\* into it, and the two submissions differed in their mutable fields.
C2_Witness ==
  /\ lastCall.op = "create_usage_log"
  /\ ~lastCall.inserted
  /\ lastCall.ret.type = "int"
  /\ \E r \in usage_data :
       /\ r.id = lastCall.ret.value
       /\ r.duration_seconds = 3
       /\ r.application_version = "1.0.1"
       /\ lastCall.args[1].duration_seconds = 2

\* C3: a create whose key already exists returns the id of the existing row
\* (the id the preceding create for that key returned), leaves that row's id,
\* log_date, user and application_name as they were, and leaves every other
\* row of the store unchanged.
C3_MergeFrameStep ==
  ( /\ Created
    /\ RowsOfKey(usage_data, Submitted) # {} )
  => /\ lastCall'.ret.type = "int"
     /\ lastCall'.ret.value \in RowIds(RowsOfKey(usage_data, Submitted))
     /\ ( ( /\ lastCall.op = "create_usage_log"
            /\ lastCall.ret.type = "int"
            /\ KeyOf(lastCall.args[1]) = KeyOf(Submitted) )
          => lastCall'.ret = lastCall.ret )
     /\ LET N == lastCall'.ret.value IN
         /\ \E before \in usage_data, after \in db'.usage_data :
              /\ before.id = N /\ after.id = N
              /\ KeyOf(after) = KeyOf(before)
         /\ {r \in usage_data : r.id # N} = {r \in db'.usage_data : r.id # N}
         /\ RowIds(db'.usage_data) = RowIds(usage_data)
         /\ Cardinality(db'.usage_data) = Cardinality(usage_data)

C3_MergeKeepsIdentity == [][C3_MergeFrameStep]_vars

\* A create has merged into a row while the table held another row as well.
C3_Witness ==
  /\ lastCall.op = "create_usage_log"
  /\ ~lastCall.inserted
  /\ lastCall.ret.type = "int"
  /\ Cardinality(usage_data) = 2
  /\ \E r \in usage_data : r.id # lastCall.ret.value

\* C10: a well-formed create whose key is not in the store adds exactly one row,
\* and that row holds the submitted field values; the rows that were there stay.
C10_InsertStep ==
  ( /\ Created
    /\ RowsOfKey(usage_data, Submitted) = {} )
  => /\ Cardinality(db'.usage_data) = Cardinality(usage_data) + 1
     /\ usage_data \subseteq db'.usage_data
     /\ lastCall'.ret.type = "int"
     /\ lastCall'.ret.value \notin RowIds(usage_data)
     /\ LET listed == List(db', [id |-> lastCall'.ret.value]) IN
         /\ Len(listed) = 1
         /\ \A f \in required_fields : listed[1][f] = Submitted[f]

C10_DistinctKeyAddsOneRow == [][C10_InsertStep]_vars

\* Two creates with distinct keys have taken the table from empty to two rows.
C10_Witness ==
  /\ lastCall.op = "create_usage_log"
  /\ lastCall.inserted
  /\ Cardinality(usage_data) = 2
  /\ \A r1 \in usage_data, r2 \in usage_data : r1 # r2 => KeyOf(r1) # KeyOf(r2)

\* ------------------------------------------- claims on the four operations
\* The arguments of the call a step makes.
Calls(op) == lastCall'.op = op

CalledLogId == lastCall'.args[1]
CalledUpdates == lastCall'.args[2]
CalledFilters == lastCall'.args[1]

\* C11: a create whose log_data lacks required fields writes nothing and fails
\* with an outcome that names the missing keys, so that submissions that lack
\* different keys get different outcomes.
C11_Step ==
  ( /\ Calls("create_usage_log")
    /\ missing_fields(Submitted) # {} )
  => /\ db' = db
     /\ lastCall'.ret.type # "int"
     /\ \A other \in BadLogData :
          missing_fields(other) # missing_fields(Submitted)
            => create_usage_log(db, other).ret # lastCall'.ret

C11_MissingFieldsNamed == [][C11_Step]_vars

\* C12: an update of an id that is not in the table returns False and leaves
\* the table as it was; an update with an empty updates dict leaves the table
\* as it was and has an outcome other than the False of an unknown id.
C12_Step ==
  Calls("update_usage_log")
  => /\ ( ( /\ CalledLogId \notin RowIds(usage_data)
            /\ DOMAIN CalledUpdates # {}
            /\ DOMAIN CalledUpdates \subseteq Columns )
          => /\ lastCall'.ret = BoolValue(FALSE)
             /\ db' = db )
     /\ ( DOMAIN CalledUpdates = {}
          => /\ db' = db
             /\ lastCall'.ret # BoolValue(FALSE) )

C12_UnknownIdAndEmptyUpdate == [][C12_Step]_vars

\* The one element of a list of one element.
Only(listed) == listed[1]

\* C13: an update of an id that is in the table, with a non-empty updates dict
\* that names data columns, returns True; the row then holds the given value in
\* every named column (the value itself, nothing added to what was stored), its
\* other columns are as they were, and every other row is unchanged.
C13_Step ==
  ( /\ Calls("update_usage_log")
    /\ CalledLogId \in RowIds(usage_data)
    /\ DOMAIN CalledUpdates # {}
    /\ DOMAIN CalledUpdates \subseteq Columns \ {"id"} )
  => /\ lastCall'.ret = BoolValue(TRUE)
     /\ Len(List(db', [id |-> CalledLogId])) = 1
     /\ LET before == Only(List(db, [id |-> CalledLogId]))
            after == Only(List(db', [id |-> CalledLogId]))
        IN  \A c \in Columns :
              after[c] = IF c \in DOMAIN CalledUpdates
                         THEN CalledUpdates[c] ELSE before[c]
     /\ {r \in db'.usage_data : r.id # CalledLogId}
          = {r \in usage_data : r.id # CalledLogId}

C13_UpdateOverwritesNamedColumns == [][C13_Step]_vars

\* An update has overwritten the duration and the legacy flag of one of two
\* rows and has left its platform alone.
C13_Witness ==
  /\ lastCall.op = "update_usage_log"
  /\ lastCall.ret = BoolValue(TRUE)
  /\ "duration_seconds" \in DOMAIN lastCall.args[2]
  /\ Cardinality(usage_data) = 2
  /\ \E r \in usage_data :
       /\ r.id = lastCall.args[1]
       /\ r.duration_seconds = lastCall.args[2].duration_seconds
       /\ r.legacy_app = 1
       /\ r.platform = "Windows"

\* C14: a delete of an id that is in the table returns True and removes that
\* row and no other (one row less); a delete of an id that is not in the table
\* returns False and changes nothing; a delete that follows a successful delete
\* of the same id returns False.
C14_Step ==
  Calls("delete_usage_log")
  => /\ IF CalledLogId \in RowIds(usage_data)
        THEN /\ lastCall'.ret = BoolValue(TRUE)
             /\ db'.usage_data = {r \in usage_data : r.id # CalledLogId}
             /\ Cardinality(db'.usage_data) = Cardinality(usage_data) - 1
        ELSE /\ lastCall'.ret = BoolValue(FALSE)
             /\ db' = db
     /\ ( ( /\ lastCall.op = "delete_usage_log"
            /\ lastCall.ret = BoolValue(TRUE)
            /\ lastCall.args = lastCall'.args )
          => lastCall'.ret = BoolValue(FALSE) )

C14_DeleteRemovesOneRow == [][C14_Step]_vars

\* A delete has removed one of two rows.
C14_Witness ==
  /\ lastCall.op = "delete_usage_log"
  /\ lastCall.ret = BoolValue(TRUE)
  /\ Cardinality(usage_data) = 1
  /\ lastCall.args[1] \notin RowIds(usage_data)
  /\ db.autoincrement => db.sqlite_sequence > 1

\* C15: get_usage_logs returns the stored rows that hold the filter's value in
\* every column the filter names, each once; all rows when the filter is empty;
\* an empty list when no row matches; and it leaves the table as it was.
Matches(r, f) ==
  /\ DOMAIN f \subseteq Columns
  /\ \A key \in DOMAIN f : row_dict(r)[key] = f[key]

Elements(listed) == {listed[i] : i \in 1..Len(listed)}

C15_Step ==
  Calls("get_usage_logs")
  => /\ db' = db
     /\ lastCall'.ret.type = "list"
     /\ Elements(lastCall'.ret.value)
          = {row_dict(r) : r \in {x \in usage_data : Matches(x, CalledFilters)}}
     /\ Len(lastCall'.ret.value) = Cardinality(Elements(lastCall'.ret.value))
     /\ DOMAIN CalledFilters = {}
          => Len(lastCall'.ret.value) = Cardinality(usage_data)

C15_ListFiltersByConjunction == [][C15_Step]_vars

\* A filter on two columns has returned one of two rows, the other row
\* matching one of the two columns only.
C15_Witness ==
  /\ lastCall.op = "get_usage_logs"
  /\ DOMAIN lastCall.args[1] = {"user", "legacy_app"}
  /\ Len(lastCall.ret.value) = 1
  /\ Cardinality(usage_data) = 2
  /\ \E r \in usage_data :
       /\ ~Matches(r, lastCall.args[1])
       /\ \/ row_dict(r).user = lastCall.args[1].user
          \/ row_dict(r).legacy_app = lastCall.args[1].legacy_app

\* C16: ids are allocated by the store and are stable: a create leaves the id
\* of every row as it was and gives a row it inserts the id the table picks,
\* whatever its log_data names; an update leaves the ids of the table as they
\* were, whatever its updates dict names.
C16_Step ==
  /\ Calls("create_usage_log")
       => /\ RowIds(usage_data) \subseteq RowIds(db'.usage_data)
          /\ RowIds(db'.usage_data) \ RowIds(usage_data) \subseteq {NextRowId(db)}
  /\ Calls("update_usage_log")
       => RowIds(db'.usage_data) = RowIds(usage_data)

C16_IdsAllocatedByStore == [][C16_Step]_vars

\* C20: a storage fault has an outcome of its own: a create that passes the
\* validation and fails in SQLite returns something other than a create that
\* fails the validation; an update that fails in SQLite returns something other
\* than an update with an empty dict or of an unknown id; a list that fails in
\* SQLite returns something other than the empty list.
StorageFault(out) ==
  /\ out.log.level = "error"
  /\ out.log.message # "Missing required fields: "

C20_Step ==
  /\ ( /\ Calls("create_usage_log")
       /\ StorageFault(create_usage_log(db, Submitted)) )
       => lastCall'.ret # create_usage_log(db, <<>>).ret
  /\ ( /\ Calls("update_usage_log")
       /\ StorageFault(update_usage_log(db, CalledLogId, CalledUpdates)) )
       => /\ lastCall'.ret # update_usage_log(db, CalledLogId, <<>>).ret
          /\ lastCall'.ret # BoolValue(FALSE)
  /\ ( /\ Calls("get_usage_logs")
       /\ StorageFault(get_usage_logs(db, CalledFilters)) )
       => lastCall'.ret # ListValue(<<>>)

C20_StorageFaultsDistinct == [][C20_Step]_vars

\* --------------------------------------------------- claims on the replies
\* The bytes decode to a JSON object.
Parsed(data) == data.json = "value" /\ IsDict(data.value)

\* C17: the reply to a request that decodes to a JSON object carries the id of
\* the request, whatever its method and whatever its params are; only the reply
\* to bytes that do not decode to a request has id null.
C17_Step ==
  ( /\ Served
    /\ Parsed(reply'.request) )
  => reply'.response.id = Get(reply'.request.value, "id", NoneValue)

C17_ReplyCarriesRequestId == [][C17_Step]_vars

\* C18: whatever a handler reads (a request, a request without a method or with
\* an unknown one, bytes that decode to no request), it writes one reply, a
\* result or an error, and stays in its loop: it waits in writer.drain and then
\* reads again; a connection is closed only from the peer's side.
C18_Step ==
  /\ Served
       => /\ IsResult(reply'.response) # IsError(reply'.response)
          /\ pc'[reply'.conn] = "drain"
          /\ \A o \in Conns \ {reply'.conn} : pc'[o] = pc[o]
  /\ \A c \in Conns :
       /\ (pc[c] = "read" /\ pc'[c] # "read")
            => \/ (reply'.conn = c /\ pc'[c] = "drain")
               \/ (reply' = reply /\ db' = db /\ pc'[c] = "closed")
       /\ (pc[c] = "drain" /\ pc'[c] # "drain")
            => /\ reply' = reply
               /\ pc'[c] \in {"read", "closed"}

FailingCreate(data) ==
  /\ Parsed(data)
  /\ Get(data.value, "method", "") = "tools/call"
  /\ IsDict(Get(data.value, "params", <<>>))
  /\ Get(Get(data.value, "params", <<>>), "name", "None") = "create_usage_log"
  /\ missing_fields(Get(Get(data.value, "params", <<>>), "arguments", <<>>)) # {}

C19_Step ==
  ( /\ Served
    /\ FailingCreate(reply'.request) )
  => IsError(reply'.response)

C19_FailedOperationIsErrorReply == [][C19_Step]_vars

\* ------------------------------------------------- claims on the dispatch
\* The method and the params of a request that decodes to a JSON object.
MethodOf(data) == Get(data.value, "method", "")
ParamsOf(data) == Get(data.value, "params", <<>>)

\* C21: on an initialized server a tools/call whose params.name is no
\* registered tool gets an error reply whose message names the tool, with the
\* request's id; the table and the session state are as they were.
UnknownToolCall(data) ==
  /\ Parsed(data)
  /\ MethodOf(data) = "tools/call"
  /\ IsDict(ParamsOf(data))
  /\ Get(ParamsOf(data), "name", "None") \notin tools

C21_Step ==
  ( /\ Served
    /\ initialized
    /\ UnknownToolCall(reply'.request) )
  => /\ IsError(reply'.response)
     /\ reply'.response.error.code = INVALID_PARAMS
     /\ reply'.response.error.message =
          <<"Unknown tool: ", Get(ParamsOf(reply'.request), "name", "None")>>
     /\ reply'.response.id = reply'.request.value.id
     /\ db' = db
     /\ initialized' = initialized
     /\ client_capabilities' = client_capabilities

C21_UnknownToolRefused == [][C21_Step]_vars

\* After its handshake a client that has stored a row has called a tool that
\* is not registered and has been sent an error.
C21_Witness ==
  /\ handshaken["c1"]
  /\ usage_data # {}
  /\ UnknownToolCall(reply.request)
  /\ IsError(reply.response)
  /\ reply.response.error.code = INVALID_PARAMS

\* C22: on an initialized server resources/read of usage://stats gets a result
\* whose total_logs is the number of rows the table holds at that moment, and
\* leaves the table as it was; resources/read of another URI gets an error that
\* names the URI.
ResourceRead(data) ==
  /\ Parsed(data)
  /\ MethodOf(data) = "resources/read"
  /\ IsDict(ParamsOf(data))

StatsOf(response) == response.result.contents[1].text

C22_Step ==
  ( /\ Served
    /\ initialized
    /\ ResourceRead(reply'.request) )
  => /\ db' = db
     /\ IF Get(ParamsOf(reply'.request), "uri", "None") = "usage://stats"
        THEN /\ IsResult(reply'.response)
             /\ StatsOf(reply'.response).total_logs = Cardinality(usage_data)
        ELSE /\ IsError(reply'.response)
             /\ reply'.response.error.code = INVALID_PARAMS
             /\ reply'.response.error.message =
                  <<"Unknown resource: ", Get(ParamsOf(reply'.request), "uri", "None")>>

C22_StatsCountsRows == [][C22_Step]_vars

\* The statistics report the one row that is left of two: the row of the
\* second key, which has merged two creates.
C22_Witness ==
  /\ ResourceRead(reply.request)
  /\ IsResult(reply.response)
  /\ StatsOf(reply.response).total_logs = 1
  /\ \E r \in usage_data : r.id = 2 /\ r.duration_seconds > 2

\* C23: the order of the tests of process_message: a request without a method
\* gets the 'Missing method' error whether the server is initialized or not; a
\* handshake is handed to handle_initialize whether the server is initialized
\* or not; then a server that is not initialized refuses the request; and an
\* initialized server answers a method it does not route with 'Unknown method'.
RoutedMethods == {"tools/list", "tools/call", "resources/list", "resources/read", "ping"}

MissingMethodError(response) ==
  /\ IsError(response)
  /\ response.error.code = INVALID_REQUEST
  /\ response.error.message = <<"Missing method">>

UnknownMethodError(response, method) ==
  /\ IsError(response)
  /\ response.error.code = METHOD_NOT_FOUND
  /\ response.error.message = <<"Unknown method: ", method>>

C23_Step ==
  ( /\ Served
    /\ Parsed(reply'.request) )
  => LET method == MethodOf(reply'.request)
         message_id == Get(reply'.request.value, "id", NoneValue)
     IN  IF "method" \notin DOMAIN reply'.request.value
         THEN /\ MissingMethodError(reply'.response)
              /\ initialized' = initialized
              /\ db' = db
         ELSE IF method = "initialize"
         THEN IsDict(ParamsOf(reply'.request))
                => reply'.response =
                     handle_initialize(ServerState, message_id,
                                       ParamsOf(reply'.request)).response
         ELSE IF ~initialized
         THEN NotInitializedError(reply'.response)
         ELSE IF method \notin RoutedMethods
         THEN UnknownMethodError(reply'.response, method)
         ELSE /\ ~UnknownMethodError(reply'.response, method)
              /\ ~NotInitializedError(reply'.response)

C23_DispatchOrder == [][C23_Step]_vars

\* A request without a method has been answered 'Missing method' by a server
\* that is not initialized.
C23_Witness ==
  /\ ~initialized
  /\ Parsed(reply.request)
  /\ "method" \notin DOMAIN reply.request.value
  /\ MissingMethodError(reply.response)

\* C24: every reply that is written has the fields jsonrpc = "2.0" and id and
\* exactly one of result and error; an error has an integer code and a message
\* that is a string.
WellFormedReply(response) ==
  /\ \/ DOMAIN response = {"jsonrpc", "id", "result"}
     \/ DOMAIN response = {"jsonrpc", "id", "error"}
  /\ response.jsonrpc = "2.0"
  /\ IsError(response)
       => /\ DOMAIN response.error = {"code", "message"}
          /\ response.error.code \in Int
          /\ response.error.message \in Seq(STRING)

C24_ReplyShape == reply.conn \in Conns => WellFormedReply(reply.response)

\* The reply to a request whose handler raised: an error without the id.
C24_Witness ==
  /\ Parsed(reply.request)
  /\ IsError(reply.response)
  /\ reply.response.error.code = INTERNAL_ERROR
  /\ reply.response.id = NoneValue

\* C29: the registry does not change after startup: whatever requests came
\* before, tools/list and resources/list on an initialized server return the
\* catalog they return right after MCPServer.__init__.
StartupState ==
  [initialized |-> TRUE, client_capabilities |-> <<>>,
   db |-> [usage_data |-> {}, sqlite_sequence |-> 0, autoincrement |-> db.autoincrement]]

C29_Step ==
  ( /\ Served
    /\ initialized
    /\ Parsed(reply'.request) )
  => LET message_id == Get(reply'.request.value, "id", NoneValue) IN
     /\ MethodOf(reply'.request) = "tools/list"
          => /\ reply'.response = handle_tools_list(StartupState, message_id).response
             /\ reply'.response.result.tools = tools
     /\ MethodOf(reply'.request) = "resources/list"
          => reply'.response =
               handle_resources_list(StartupState, message_id).response

C25_Step ==
  \A c \in Conns :
    (inflight[c] # NoData /\ inflight'[c] = NoData)
      => /\ pc[c] = "read"
         /\ pc'[c] = "drain"
         /\ reply'.conn = c
         /\ reply'.request = inflight[c]
         /\ reply'.response = serve(ServerState, inflight[c]).response

Open(c) == pc[c] \in {"read", "drain"}

Untouched(o) ==
  /\ pc'[o] = pc[o]
  /\ handshaken'[o] = handshaken[o]
  /\ initialized' = initialized
  /\ client_capabilities' = client_capabilities

C26_Step ==
  /\ (Served /\ IsError(reply'.response))
       => \A o \in Conns \ {reply'.conn} : Open(o) => Untouched(o)
  /\ \A c \in Conns :
       (Open(c) /\ pc'[c] = "closed")
         => \A o \in Conns \ {c} : Open(o) => Untouched(o)

C26_FaultsConfined == [][C26_Step]_vars


\* ---------------------------------------------------- claims on the store
\* C28: every row of usage_data holds a duration_seconds of zero or more,
\* whatever creates and updates wrote it.
C28_DurationNonNegative ==
  \A r \in usage_data : r.duration_seconds >= 0

\* C30 as stated: after a create that returned id N, the list filtered by id N
\* is one record that holds the submitted value in every submitted field; after
\* an update of N that returned True, the list filtered by id N is that record
\* with the given value in every named field; after a delete of N that
\* returned True, the list filtered by id N is empty.
Returned(op, value) ==
  /\ Calls(op)
  /\ lastCall'.ret = value

CreatedId == lastCall'.ret.value

ListedById(d, id) == List(d, [id |-> id])

C30_StatedStep ==
  /\ (Calls("create_usage_log") /\ lastCall'.ret.type = "int")
       => /\ Len(ListedById(db', CreatedId)) = 1
          /\ \A f \in required_fields :
               Only(ListedById(db', CreatedId))[f] = Submitted[f]
  /\ Returned("update_usage_log", BoolValue(TRUE))
       => /\ Len(ListedById(db', CalledLogId)) = 1
          /\ \A f \in DOMAIN CalledUpdates :
               Only(ListedById(db', CalledLogId))[f] = CalledUpdates[f]
  /\ Returned("delete_usage_log", BoolValue(TRUE))
       => ListedById(db', CalledLogId) = <<>>

C30_Step ==
  /\ (Calls("create_usage_log") /\ lastCall'.ret.type = "int")
       => /\ Len(ListedById(db', CreatedId)) = 1
          /\ \A f \in required_fields \ {"duration_seconds"} :
               Only(ListedById(db', CreatedId))[f] = Submitted[f]
          /\ Only(ListedById(db', CreatedId)).duration_seconds
               = IF lastCall'.inserted
                 THEN Submitted.duration_seconds
                 ELSE Only(ListedById(db, CreatedId)).duration_seconds
                        + Submitted.duration_seconds
  /\ (Returned("update_usage_log", BoolValue(TRUE)) /\ "id" \notin DOMAIN CalledUpdates)
       => /\ Len(ListedById(db', CalledLogId)) = 1
          /\ \A f \in DOMAIN CalledUpdates :
               Only(ListedById(db', CalledLogId))[f] = CalledUpdates[f]
  /\ Returned("delete_usage_log", BoolValue(TRUE))
       => ListedById(db', CalledLogId) = <<>>

Hangup(c) ==
  /\ Open(c)
  /\ peer[c] = "open"
  /\ peer' = [peer EXCEPT ![c] = "gone"]
  /\ UNCHANGED <<dbVars, initialized, client_capabilities, pc, inflight, reply,
                 handshaken, rejected, submitted, client, run>>

\* A faulty handler that does not test what reader.read returned and waits
\* in reader.read again.
ReadEnds_ignored(c) ==
  /\ pc[c] = "read"
  /\ peer[c] = "gone"
  /\ UNCHANGED vars

\* reader.read of a connection whose peer is gone returns b'' (the loop
\* breaks) or raises (the outer except logs it); the finally block closes.
ReadEnds(c) ==
  /\ peer[c] = "gone"
  /\ PeerClose(c)

\* writer.drain of a connection whose peer is gone raises; the inner except
\* writes an error reply and its drain raises again, the outer except logs it
\* and the finally block closes.
DrainFails(c) ==
  /\ peer[c] = "gone"
  /\ ConnectionLost(c)

\* A peer that still holds its end sends a request and the handler serves it.
Exchange(c, data) ==
  /\ peer[c] = "open"
  /\ Receive(c, data)

LifeRequests ==
  { InvalidJson,
    InitializeRequest(MCP_PROTOCOL_VERSION, CapsA),
    Request("ping-1", "ping", <<>>),
    ToolCall("get_usage_logs", <<>>) }
  \cup { ToolCall("create_usage_log", ld) : ld \in ToolLogData }

LifeNext ==
  \E c \in Conns :
    \/ Accept(c)
    \/ \E data \in LifeRequests : Exchange(c, data)
    \/ Drain(c)
    \/ Hangup(c)
    \/ ReadEnds(c)
    \/ DrainFails(c)

\* The event loop resumes a handler whose reader.read or writer.drain has
\* completed.
LifeSpec ==
  /\ Init
  /\ [][LifeNext]_vars
  /\ \A c \in Conns : WF_vars(ReadEnds(c)) /\ WF_vars(Drain(c) \/ DrainFails(c))

\* C27: a handler whose peer is gone reaches the closed position, from
\* reader.read as from writer.drain; a closed handler stays closed and serves
\* no further request.
C27_Step ==
  /\ \A c \in Conns : pc[c] = "closed" => pc'[c] = "closed"
  /\ Served => pc[reply'.conn] # "closed"

C27_HandlerReachesClosed ==
  /\ [][C27_Step]_vars
  /\ \A c \in Conns : (peer[c] = "gone") ~> (pc[c] = "closed")

\* A handler that completed a handshake is closed after its peer went away,
\* while the handler of the other connection is still in its loop.
C27_Witness ==
  \E c \in Conns :
    /\ handshaken[c]
    /\ peer[c] = "gone"
    /\ pc[c] = "closed"
    /\ reply.conn = c
    /\ \E o \in Conns \ {c} : Open(o) /\ peer[o] = "open"


\* -------------------------------------------------- claims on the session
\* C32: a connection that completed its handshake finds the server initialized
\* until it closes: no request on it, a refused later handshake included,
\* clears the flag, and no request on it that is not a handshake is answered
\* 'Server not initialized'.
C32_Step ==
  /\ \A c \in Conns : handshaken[c] => (initialized /\ initialized')
  /\ (Served /\ handshaken[reply'.conn])
       => /\ handshaken'[reply'.conn]
          /\ ~NotInitializedError(reply'.response)

C32_InitializedIsStable == [][C32_Step]_vars

\* A connection that completed its handshake has since been refused a
\* handshake with another version, and the server is still initialized.
C32_Witness ==
  \E c \in Conns :
    /\ handshaken[c]
    /\ reply.conn = c
    /\ reply.request = InitializeRequest("2023-01-01", CapsB)
    /\ IsError(reply.response)
    /\ initialized
    /\ Open(c)

\* C33: the requests tools/list, resources/list, resources/read and ping, and
\* a tools/call of get_usage_logs, leave the table and the session state as
\* they were, whether or not the server is initialized and whatever their
\* params are.
ReadOnly(data) ==
  /\ Parsed(data)
  /\ \/ MethodOf(data) \in {"tools/list", "resources/list", "resources/read", "ping"}
     \/ /\ MethodOf(data) = "tools/call"
        /\ IsDict(ParamsOf(data))
        /\ Get(ParamsOf(data), "name", "") = "get_usage_logs"

C33_Step ==
  (Served /\ ReadOnly(reply'.request))
  => /\ db' = db
     /\ initialized' = initialized
     /\ client_capabilities' = client_capabilities
     /\ handshaken' = handshaken

C33_ReadOnlyRequests == [][C33_Step]_vars

\* An initialized server with a row in its table has answered a get_usage_logs
\* call with a result.
C33_Witness ==
  /\ initialized
  /\ usage_data # {}
  /\ reply.request = ToolCall("get_usage_logs", [filters |-> [user |-> "alice"]])
  /\ IsResult(reply.response)

\* -------------------------------------------------- claims on the registry
\* The "required" list of a tool's inputSchema.
required(tool_name) ==
  CASE tool_name = "create_usage_log" -> required_fields
    [] tool_name = "update_usage_log" -> {"log_id", "updates"}
    [] tool_name = "delete_usage_log" -> {"log_id"}
    [] tool_name = "analyze_top_users" -> {"app_name"}
    [] tool_name \in {"analyze_new_users", "analyze_weekly_additions",
                      "analyze_daily_trends"} -> {"start_date", "end_date"}
    [] tool_name = "analyze_inactive_users" -> {"cutoff_date"}
    [] tool_name = "analyze_user_activity" -> {"user_name"}
    [] OTHER -> {}

\* A tools/call that names a registered tool and carries the arguments the
\* tool's schema requires.
ValidToolCall(data) ==
  /\ Parsed(data)
  /\ MethodOf(data) = "tools/call"
  /\ IsDict(ParamsOf(data))
  /\ Get(ParamsOf(data), "name", "None") \in tools
  /\ IsDict(Get(ParamsOf(data), "arguments", <<>>))
  /\ required(ParamsOf(data).name) \subseteq DOMAIN Get(ParamsOf(data), "arguments", <<>>)

\* C34: on an initialized server a call of a registered tool with the
\* arguments its schema requires is answered with a result, never with a
\* 'Tool implementation missing' or a 'Tool execution failed' error.
C34_Step ==
  ( /\ Served
    /\ initialized
    /\ ValidToolCall(reply'.request) )
  => IsResult(reply'.response)

C34_AdvertisedToolsWork == [][C34_Step]_vars

\* ------------------------------------------------ claims on the error codes
\* The code of an error reply; 0 for a result.
CodeOf(response) == IF IsError(response) THEN response.error.code ELSE 0

\* Bytes that decode to no JSON value: text that is no JSON, bytes that are no
\* UTF-8.
Undecodable(data) == data.json \in {"invalid", "notutf8"}

\* A request with a method and params that are an object.
Routed(data, method) ==
  /\ Parsed(data)
  /\ MethodOf(data) = method
  /\ IsDict(ParamsOf(data))

\* C35: each error condition has one code in every state: undecodable input
\* -32700; no method -32600; a method other than initialize before
\* initialization -32600; an unknown method -32601; an unsupported protocol
\* version, an unknown tool and an unknown resource URI -32602; a failure in a
\* registered tool or in reading the stats resource -32603.
C35_Step ==
  Served =>
    LET data == reply'.request
        code == CodeOf(reply'.response)
    IN  /\ Undecodable(data) => code = PARSE_ERROR
        /\ (Parsed(data) /\ MethodOf(data) = "") => code = INVALID_REQUEST
        /\ (Parsed(data) /\ MethodOf(data) \notin {"", "initialize"} /\ ~initialized)
             => code = INVALID_REQUEST
        /\ ( /\ Parsed(data) /\ initialized
             /\ MethodOf(data) \notin RoutedMethods \cup {"", "initialize"} )
             => code = METHOD_NOT_FOUND
        /\ ( /\ Routed(data, "initialize")
             /\ Get(ParamsOf(data), "protocolVersion", "None") # MCP_PROTOCOL_VERSION )
             => code = INVALID_PARAMS
        /\ ( /\ Routed(data, "tools/call") /\ initialized
             /\ Get(ParamsOf(data), "name", "None") \notin tools )
             => code = INVALID_PARAMS
        /\ ( /\ Routed(data, "resources/read") /\ initialized
             /\ Get(ParamsOf(data), "uri", "None") # "usage://stats" )
             => code = INVALID_PARAMS
        /\ ( /\ Routed(data, "tools/call") /\ initialized
             /\ Get(ParamsOf(data), "name", "None") \in tools )
             => code \in {0, INTERNAL_ERROR}
        /\ ( /\ Routed(data, "resources/read") /\ initialized
             /\ Get(ParamsOf(data), "uri", "None") = "usage://stats" )
             => code \in {0, INTERNAL_ERROR}

C35_OneCodePerCondition == [][C35_Step]_vars

\* ------------------------------------------------- a followed run of creates
\* What a create that returned an id makes of the run: it extends the run of
\* its key, or starts one when the table held no row for its key, or leaves
\* the run of another key as it is.
run_after_create(log_data, ret) ==
  IF ret.type # "int" THEN run
  ELSE IF run.open /\ run.key = KeyOf(log_data)
  THEN [run EXCEPT !.total = @ + log_data.duration_seconds, !.last = log_data]
  ELSE IF \A r \in usage_data : KeyOf(r) # KeyOf(log_data)
  THEN [open |-> TRUE, deleted |-> FALSE, key |-> KeyOf(log_data), id |-> ret.value,
        total |-> log_data.duration_seconds, last |-> log_data]
  ELSE run

\* An update or a delete of the run's row that returned True ends the run.
run_after_update(log_id, ret) ==
  IF run.open /\ log_id = run.id /\ ret = BoolValue(TRUE) THEN NoRun ELSE run

run_after_delete(log_id, ret) ==
  IF run.open /\ log_id = run.id /\ ret = BoolValue(TRUE)
  THEN [NoRun EXCEPT !.deleted = TRUE, !.key = run.key]
  ELSE run

CreateInRun(log_data) ==
  /\ Create(log_data)
  /\ run' = run_after_create(log_data, lastCall'.ret)
  /\ run'.total <= MaxDuration
  /\ UNCHANGED sessionVars

UpdateInRun(log_id, updates) ==
  /\ Update(log_id, updates)
  /\ run' = run_after_update(log_id, lastCall'.ret)
  /\ UNCHANGED sessionVars

DeleteInRun(log_id) ==
  /\ Delete(log_id)
  /\ run' = run_after_delete(log_id, lastCall'.ret)
  /\ UNCHANGED sessionVars

RunNext ==
  \/ \E log_data \in CrudLogData : CreateInRun(log_data)
  \/ \E log_id \in LogIds, updates \in Updates : UpdateInRun(log_id, updates)
  \/ \E log_id \in LogIds : DeleteInRun(log_id)

\* The store under direct calls, with one run of creates followed.
RunSpec == Init /\ [][RunNext]_vars

\* C36: while a run of creates for a key is followed (the table held no row
\* for the key when it began and its row was not updated or deleted since),
\* the table holds one row for the key, the row the first create inserted; its
\* duration_seconds is the sum of the durations submitted, in whatever order
\* they came, and its other data columns are those of the last submission.
RunRows == {r \in usage_data : KeyOf(r) = run.key}

C36_RunOfCreatesSums ==
  run.open
  => /\ Cardinality(RunRows) = 1
     /\ \A r \in RunRows :
          /\ r.id = run.id
          /\ r.duration_seconds = run.total
          /\ row_dict(r).legacy_app = run.last.legacy_app
          /\ r.monitor_app_version = run.last.monitor_app_version
          /\ r.platform = run.last.platform
          /\ r.application_version = run.last.application_version

\* C37: once the row of a run was deleted, the next create for its key that
\* returns an id has inserted a row: the table has one row more, and the row
\* of the returned id holds the submitted duration and nothing of the deleted
\* row's.
C37_Step ==
  ( /\ Calls("create_usage_log")
    /\ lastCall'.ret.type = "int"
    /\ run.deleted
    /\ KeyOf(Submitted) = run.key )
  => /\ lastCall'.inserted
     /\ Cardinality(db'.usage_data) = Cardinality(usage_data) + 1
     /\ Len(ListedById(db', CreatedId)) = 1
     /\ Only(ListedById(db', CreatedId)).duration_seconds = Submitted.duration_seconds

C37_CreateAfterDeleteInserts == [][C37_Step]_vars

\* ================================================================ MCPClient
\* The connection the MCPClient object holds.
Own == "c1"

\* What a method call leaves in the object: its name, its arguments, its
\* return value and the bytes it wrote.
Called(c, op, args, ret, sent) ==
  [c EXCEPT !.op = op, !.args = args, !.ret = ret, !.sent = sent,
            !.tick = ~c.tick]

\* writer.write and drain of a request, the handler's work on it, and
\* reader.read of the reply, which is reply'.response.
Roundtrip(request) ==
  /\ client.writer = "open"
  /\ inflight[Own] = NoData
  /\ Handle(Own, Json(request))
  /\ UNCHANGED <<inflight, submitted>>

\* A call that writes nothing to the server.
Local(op, args, ret) ==
  /\ client' = Called(client, op, args, ret, NoData)
  /\ UNCHANGED <<dbVars, initialized, client_capabilities, pc, inflight, reply,
                 handshaken, rejected, submitted, peer, run>>

\* send_request without a writer, or on a writer that was closed: None.
Unconnected == client.writer # "open"

\* MCPClient.connect: asyncio.open_connection; the server accepts.
Connected(c, op, at) ==
  [Called(c, op, <<>>, BoolValue(TRUE), NoData) EXCEPT !.writer = "open", !.at = at]

connect ==
  /\ client.at = "idle"
  /\ client.writer = "None"
  /\ pc[Own] = "none"
  /\ pc' = [pc EXCEPT ![Own] = "read"]
  /\ client' = Connected(client, "connect", "idle")
  /\ UNCHANGED <<dbVars, initialized, client_capabilities, inflight, reply,
                 handshaken, rejected, submitted, peer, run>>

\* MCPClient.disconnect: closes the writer it holds, if any.
disconnect ==
  /\ client.at = "idle"
  /\ IF client.writer = "open"
     THEN /\ client' = [Called(client, "disconnect", <<>>, NoneValue, NoData)
                          EXCEPT !.writer = "closed"]
          /\ peer' = [peer EXCEPT ![Own] = "gone"]
     ELSE /\ client' = Called(client, "disconnect", <<>>, NoneValue, NoData)
          /\ peer' = peer
  /\ UNCHANGED <<dbVars, initialized, client_capabilities, pc, inflight, reply,
                 handshaken, rejected, submitted, run>>

\* MCPClient.send_request(request).
send_request(request) ==
  /\ client.at = "idle"
  /\ IF Unconnected
     THEN Local("send_request", <<request>>, NoneValue)
     ELSE /\ Roundtrip(request)
          /\ client' = Called(client, "send_request", <<request>>, reply'.response, Json(request))

\* ----------------------------------------------------- MCPClient.initialize
init_request ==
  [jsonrpc |-> "2.0", id |-> StrValue("uuid-1"), method |-> "initialize",
   params |-> [protocolVersion |-> MCP_PROTOCOL_VERSION,
               capabilities |-> [tools |-> <<>>, resources |-> <<>>],
               clientInfo |-> [name |-> "application-usage-client",
                               version |-> "1.0.0"]]]

\* initialize on an object without a writer awaits connect first.
initialize_connect ==
  /\ client.at = "idle"
  /\ client.writer = "None"
  /\ pc[Own] = "none"
  /\ pc' = [pc EXCEPT ![Own] = "read"]
  /\ client' = Connected(client, "initialize", "handshake")
  /\ UNCHANGED <<dbVars, initialized, client_capabilities, inflight, reply,
                 handshaken, rejected, submitted, peer, run>>

\* The handshake request and what initialize makes of the reply.
initialize_handshake ==
  /\ \/ client.at = "handshake"
     \/ client.at = "idle" /\ client.writer # "None"
  /\ IF Unconnected
     THEN /\ client' = [Called(client, "initialize", <<>>, BoolValue(FALSE), NoData)
                          EXCEPT !.at = "idle"]
          /\ UNCHANGED <<dbVars, initialized, client_capabilities, pc, inflight,
                         reply, handshaken, rejected, submitted, peer, run>>
     ELSE /\ Roundtrip(init_request)
          /\ client' =
               IF IsResult(reply'.response)
               THEN [Called(client, "initialize", <<>>, NoneValue, Json(init_request))
                       EXCEPT !.server_capabilities =
                                Get(reply'.response.result, "capabilities", <<>>),
                              !.initialized = TRUE,
                              !.at = "load_tools"]
               ELSE [Called(client, "initialize", <<>>, BoolValue(FALSE), Json(init_request))
                       EXCEPT !.at = "idle"]

\* load_tools and load_resources, awaited by initialize after the handshake.
list_request(method) ==
  [jsonrpc |-> "2.0", id |-> StrValue("uuid-1"), method |-> method]

load_tools ==
  /\ client.at = "load_tools"
  /\ IF Unconnected
     THEN /\ client' = [Called(client, "initialize", <<>>, NoneValue, NoData)
                          EXCEPT !.at = "load_resources"]
          /\ UNCHANGED <<dbVars, initialized, client_capabilities, pc, inflight,
                         reply, handshaken, rejected, submitted, peer, run>>
     ELSE /\ Roundtrip(list_request("tools/list"))
          /\ client' =
               [Called(client, "initialize", <<>>, NoneValue, Json(list_request("tools/list")))
                  EXCEPT !.available_tools =
                           IF IsResult(reply'.response)
                           THEN Get(reply'.response.result, "tools", {}) ELSE @,
                         !.at = "load_resources"]

load_resources ==
  /\ client.at = "load_resources"
  /\ IF Unconnected
     THEN /\ client' = [Called(client, "initialize", <<>>, BoolValue(TRUE), NoData)
                          EXCEPT !.at = "idle"]
          /\ UNCHANGED <<dbVars, initialized, client_capabilities, pc, inflight,
                         reply, handshaken, rejected, submitted, peer, run>>
     ELSE /\ Roundtrip(list_request("resources/list"))
          /\ client' =
               [Called(client, "initialize", <<>>, BoolValue(TRUE),
                       Json(list_request("resources/list")))
                  EXCEPT !.available_resources =
                           IF IsResult(reply'.response)
                           THEN Get(reply'.response.result, "resources", {}) ELSE @,
                         !.at = "idle"]

\* ------------------------------------------- call_tool and read_resource
tool_request(tool_name, arguments) ==
  [jsonrpc |-> "2.0", id |-> StrValue("uuid-1"), method |-> "tools/call",
   params |-> [name |-> tool_name, arguments |-> arguments]]

resource_request(uri) ==
  [jsonrpc |-> "2.0", id |-> StrValue("uuid-1"), method |-> "resources/read",
   params |-> [uri |-> uri]]

\* What call_tool and read_resource return for a response.
result_or_None(response) ==
  IF IsResult(response) THEN response.result ELSE NoneValue

\* A faulty variant without the test of self.initialized.
call_tool_unguarded(tool_name, arguments) ==
  /\ client.at = "idle"
  /\ IF Unconnected
     THEN Local("call_tool", <<[name |-> tool_name, arguments |-> arguments]>>, NoneValue)
     ELSE /\ Roundtrip(tool_request(tool_name, arguments))
          /\ client' = Called(client, "call_tool",
                              <<[name |-> tool_name, arguments |-> arguments]>>,
                              result_or_None(reply'.response),
                              Json(tool_request(tool_name, arguments)))

call_tool(tool_name, arguments) ==
  /\ client.at = "idle"
  /\ IF ~client.initialized \/ Unconnected
     THEN Local("call_tool", <<[name |-> tool_name, arguments |-> arguments]>>, NoneValue)
     ELSE /\ Roundtrip(tool_request(tool_name, arguments))
          /\ client' = Called(client, "call_tool",
                              <<[name |-> tool_name, arguments |-> arguments]>>,
                              result_or_None(reply'.response),
                              Json(tool_request(tool_name, arguments)))

read_resource(uri) ==
  /\ client.at = "idle"
  /\ IF ~client.initialized \/ Unconnected
     THEN Local("read_resource", <<[uri |-> uri]>>, NoneValue)
     ELSE /\ Roundtrip(resource_request(uri))
          /\ client' = Called(client, "read_resource", <<[uri |-> uri]>>,
                              result_or_None(reply'.response),
                              Json(resource_request(uri)))

\* --------------------------------------------- a client and another peer
\* The requests of tests/test_mcp_integration.py, in the module/command/payload
\* form, for the submissions sent over a connection.
create_request(log_data) ==
  [module |-> "database", command |-> "create_usage_log",
   payload |-> [log_data |-> log_data]]

get_request(id) ==
  [module |-> "database", command |-> "get_usage_logs",
   payload |-> [filters |-> [id |-> id]]]

CreateRequests == {create_request(ld) : ld \in ToolLogData}
GetRequests == {get_request(id) : id \in 1..MaxRowId}

ClientToolCalls ==
  {[name |-> "create_usage_log", arguments |-> ld] : ld \in ToolLogData}
    \cup {[name |-> "get_usage_logs", arguments |-> [filters |-> [id |-> 1]]]}

ClientUris == {"usage://stats", "usage://logs"}

\* The object's methods, the handler of its connection, and a second peer that
\* connects and completes a handshake of its own.
ClientNext ==
  \/ connect
  \/ disconnect
  \/ \E request \in CreateRequests \cup GetRequests : send_request(request)
  \/ initialize_connect
  \/ initialize_handshake
  \/ load_tools
  \/ load_resources
  \/ \E call \in ClientToolCalls : call_tool(call.name, call.arguments)
  \/ \E uri \in ClientUris : read_resource(uri)
  \/ Drain(Own)
  \/ ReadEnds(Own)
  \/ Accept("c2")
  \/ Receive("c2", InitializeRequest(MCP_PROTOCOL_VERSION, CapsA))
  \/ Drain("c2")

ClientSpec == Init /\ [][ClientNext]_vars

\* --------------------------------------------------- claims on the client
\* A step that is a call of the named method on the MCPClient object.
ClientCalls(op) ==
  /\ client'.tick # client.tick
  /\ client'.op = op

Asked == client'.args[1]

\* C31: a client on which initialize was never called sends the create request
\* of the integration test with send_request and gets status "success" with an
\* integer id as data; its get request for an id gets status "success" with
\* one record, the row of that id.
C31_Step ==
  ( /\ ClientCalls("send_request")
    /\ ~client.initialized
    /\ client.writer # "closed" )
  => /\ Get(client'.ret, "status", "") = "success"
     /\ Asked \in CreateRequests
          => Get(client'.ret, "data", NoneValue) \in 1..MaxRowId
     /\ (Asked \in GetRequests /\ Asked.payload.filters.id \in RowIds(usage_data))
          => Get(client'.ret, "data", <<>>)
               = List(db, [id |-> Asked.payload.filters.id])

C31_LegacyRequestsSucceed == [][C31_Step]_vars

\* C38: the object's initialized flag is set only by an initialize call whose
\* handshake the server answered with a result; while it is unset, call_tool
\* and read_resource write nothing and return None; so whenever one of them
\* writes a request, the server has accepted a handshake on the object's
\* connection before.
GuardedCall ==
  /\ client'.tick # client.tick
  /\ client'.op \in {"call_tool", "read_resource"}

C38_Step ==
  /\ (~client.initialized /\ client'.initialized)
       => /\ client'.op = "initialize"
          /\ Served
          /\ reply'.conn = Own
          /\ reply'.request = Json(init_request)
          /\ IsResult(reply'.response)
          /\ handshaken'[Own]
  /\ (GuardedCall /\ ~client.initialized)
       => /\ client'.ret = NoneValue
          /\ client'.sent = NoData
          /\ ~Served
          /\ db' = db
  /\ (GuardedCall /\ client'.sent # NoData)
       => /\ handshaken[Own]
          /\ initialized
          /\ Served
          /\ reply'.conn = Own
          /\ reply'.request = client'.sent

====
